---- MODULE Spec2Model ----
(***************************************************************************)
(* gemindex CLI: the sync planner (sync-engine), the transfer executor     *)
(* (uploader) and the store round trip of a sync run.                      *)
(*                                                                         *)
(* Strings that the code takes apart (paths, file names) are sequences of  *)
(* tokens: a separator "/" or "\\", the character "_", or a chunk of other *)
(* characters.  Two strings are equal iff their token sequences are.       *)
(* An optional value is a sequence of length 0 (absent) or 1 (present).    *)
(* A hex digest is a non-empty string; NoHash is the absent digest.        *)
(***************************************************************************)
EXTENDS Integers, Sequences, FiniteSets, TLC

VARIABLES
    pc,            \* position of the run being modelled
    localFiles,    \* LocalFile[] returned by scanFiles
    localHashes,   \* Map absolutePath -> sha256 returned by computeHashes
    remoteFiles,   \* RemoteFile[] returned by ApiClient.listFiles
    deleteRemote,  \* the delete flag given to buildSyncPlan
    engine,        \* which sync-engine source built the plan
    plan,          \* the SyncPlan
    batch,         \* "uploads" (executeUploads) or "deletes" (executeDeletes)
    actions,       \* SyncAction[] given to the executor
    concurrency,   \* width of the queue
    maxRetries,    \* retry budget of uploadWithRetry
    aborted,       \* signal.aborted
    task,          \* per action: where its queued function stands
    pending,       \* the queue: indices of the actions waiting for a slot
    active,        \* the queue: number of functions running
    results,       \* the executor's results array
    progress,      \* the results handed to onProgress, in call order
    calls,         \* per action: client.uploadFile / deleteFile calls begun
    delays,        \* per action: the backoff delays slept, in ms
    answers,       \* per action: the outcomes of its uploadFile calls, in order,
                   \* in the runs that keep them (<<>> in the others)
    localContent,  \* absolutePath -> bytes of the local file
    store,         \* the remote store: its documents and the next document id
    run,           \* number of the sync run under way
    left,          \* upload and delete actions of the plan still to be executed
    options,       \* the flags of the sync command
    reply,         \* what was typed at the confirmation prompt, once it was
    exitCode,      \* the code given to process.exit, once it was called
    output,        \* what the command has printed, in order
    uploadResults, \* the sync command's uploadResults
    work,          \* calls begun: scanFiles, computeSha256, client.listFiles
    config,        \* the configuration loadConfig returned, once it has
    isShuttingDown, \* graceful's isShuttingDown
    shutdowns,     \* how many times graceful has emitted 'shutdown'
    signals,       \* how many SIGINT / SIGTERM the process was sent
    env,           \* the API server's PROTECTED_STORES
    requests,      \* the requests the API server is handling
    responses,     \* the responses the API server has given, in order
    geminiCalls,   \* the calls of gemini.deleteStore made, in order
    reading,       \* the read stream of the computeSha256 call under way
    settled        \* how the promises of computeSha256 were settled, in order

planVars == <<localFiles, localHashes, remoteFiles, deleteRemote, engine, plan>>

execVars == <<batch, actions, concurrency, maxRetries, aborted, task, pending, active,
              results, progress, calls, delays, answers>>

syncVars == <<localContent, store, run, left>>

cmdVars == <<options, reply, exitCode, output, uploadResults, work, config>>

gracefulVars == <<isShuttingDown, shutdowns, signals>>

serverVars == <<env, requests, responses, geminiCalls>>

hashVars == <<reading, settled>>

vars == <<pc, planVars, execVars, syncVars, cmdVars,
                   gracefulVars, hashVars, serverVars>>

----------------------------------------------------------------------------
(* Bounds of the model *)

MaxLocal == 2

MaxRemote == 2

MaxUploads == 2

MaxDeletes == 3

MaxStoreDocs == 1

MaxCmdLocal == 1

MaxCmdRemote == 2

----------------------------------------------------------------------------
(* Generic helpers *)

None == <<>>

Some(x) == <<x>>

Range(s) == {s[i] : i \in 1..Len(s)}

RECURSIVE SeqsUpTo(_, _)
SeqsUpTo(S, n) ==
    IF n = 0 THEN {<<>>}
    ELSE LET shorter == SeqsUpTo(S, n - 1)
         IN  shorter \cup {Append(s, x) : s \in {t \in shorter : Len(t) = n - 1}, x \in S}

NoHash == ""

\* JavaScript truthiness of an optional digest, and of a file name
TruthyHash(h) == h # NoHash

TruthyName(n) == n # <<>>

----------------------------------------------------------------------------
(* Paths *)

Separators == {"/", "\\"}

\* "docs/guide.md" -> "docs_guide.md"
pathToFilename(relativePath) ==
    [i \in 1..Len(relativePath) |->
        IF relativePath[i] \in Separators THEN "_" ELSE relativePath[i]]

verbatimPath(relativePath) == relativePath

\* path.join(baseDir, entry.path)
absolutePathOf(relativePath) == <<"base", "/">> \o relativePath

LocalFile(relativePath) ==
    [relativePath |-> relativePath,
     absolutePath |-> absolutePathOf(relativePath),
     size |-> Len(relativePath)]

----------------------------------------------------------------------------
(* A JavaScript Map, in insertion order: a sequence of <<key, value>> *)

MapHas(m, k) == \E i \in 1..Len(m) : m[i][1] = k

MapGet(m, k) ==
    IF MapHas(m, k)
    THEN Some(m[CHOOSE i \in 1..Len(m) : m[i][1] = k][2])
    ELSE None

MapSet(m, k, v) ==
    IF MapHas(m, k)
    THEN [i \in 1..Len(m) |-> IF m[i][1] = k THEN <<k, v>> ELSE m[i]]
    ELSE Append(m, <<k, v>>)

\* mutant: the consumed entry stays in the map
MapDeleteKeeps(m, k) == m

RECURSIVE MapDelete(_, _)
MapDelete(m, k) ==
    IF m = <<>> THEN <<>>
    ELSE IF Head(m)[1] = k THEN MapDelete(Tail(m), k)
    ELSE <<Head(m)>> \o MapDelete(Tail(m), k)

HashOf(hashes, absolutePath) ==
    IF absolutePath \in DOMAIN hashes THEN hashes[absolutePath] ELSE NoHash

----------------------------------------------------------------------------
(* sync-engine: buildSyncPlan *)

EmptyPlan == [uploads |-> <<>>, skips |-> <<>>, deletes |-> <<>>]

RECURSIVE IndexRemotes(_, _)
IndexRemotes(remotes, m) ==
    IF remotes = <<>> THEN m
    ELSE LET remote == Head(remotes)
         IN  IndexRemotes(Tail(remotes),
                 IF TruthyName(remote.originalFileName)
                 THEN MapSet(m, remote.originalFileName, remote)
                 ELSE m)

\* mutant: the legacy branch is missing
ClassifyNoLegacy(p, local, localHash, found) ==
    IF found = None
    THEN [p EXCEPT !.uploads = Append(@,
            [type |-> "upload", localFile |-> Some(local), remoteFile |-> None,
             reason |-> "new file"])]
    ELSE LET remote == found[1] IN
         IF TruthyHash(remote.sha256) /\ TruthyHash(localHash) /\ remote.sha256 # localHash
         THEN [p EXCEPT !.uploads = Append(@,
                [type |-> "upload", localFile |-> Some(local), remoteFile |-> found,
                 reason |-> "content changed"])]
         ELSE [p EXCEPT !.skips = Append(@,
                [type |-> "skip", localFile |-> Some(local), remoteFile |-> found,
                 reason |-> "unchanged"])]

\* mutant: the digests are compared with === instead of !==
ClassifyInverted(p, local, localHash, found) ==
    IF found = None
    THEN [p EXCEPT !.uploads = Append(@,
            [type |-> "upload", localFile |-> Some(local), remoteFile |-> None,
             reason |-> "new file"])]
    ELSE LET remote == found[1] IN
         IF TruthyHash(remote.sha256) /\ TruthyHash(localHash) /\ remote.sha256 = localHash
         THEN [p EXCEPT !.uploads = Append(@,
                [type |-> "upload", localFile |-> Some(local), remoteFile |-> found,
                 reason |-> "content changed"])]
         ELSE IF ~TruthyHash(remote.sha256)
         THEN [p EXCEPT !.uploads = Append(@,
                [type |-> "upload", localFile |-> Some(local), remoteFile |-> found,
                 reason |-> "missing remote hash"])]
         ELSE [p EXCEPT !.skips = Append(@,
                [type |-> "skip", localFile |-> Some(local), remoteFile |-> found,
                 reason |-> "unchanged"])]

\* mutant: the legacy test is an if of its own, not an else-if
ClassifyNoElse(p, local, localHash, found) ==
    IF found = None
    THEN [p EXCEPT !.uploads = Append(@,
            [type |-> "upload", localFile |-> Some(local), remoteFile |-> None,
             reason |-> "new file"])]
    ELSE LET remote == found[1]
             q == IF TruthyHash(remote.sha256) /\ TruthyHash(localHash)
                     /\ remote.sha256 # localHash
                  THEN [p EXCEPT !.uploads = Append(@,
                         [type |-> "upload", localFile |-> Some(local),
                          remoteFile |-> found, reason |-> "content changed"])]
                  ELSE p
         IN  IF ~TruthyHash(remote.sha256)
             THEN [q EXCEPT !.uploads = Append(@,
                    [type |-> "upload", localFile |-> Some(local), remoteFile |-> found,
                     reason |-> "missing remote hash"])]
             ELSE [q EXCEPT !.skips = Append(@,
                    [type |-> "skip", localFile |-> Some(local), remoteFile |-> found,
                     reason |-> "unchanged"])]

\* mutant: a changed file is planned without the remote file it replaces
ClassifyForgetsRemote(p, local, localHash, found) ==
    IF found = None
    THEN [p EXCEPT !.uploads = Append(@,
            [type |-> "upload", localFile |-> Some(local), remoteFile |-> None,
             reason |-> "new file"])]
    ELSE LET remote == found[1] IN
         IF TruthyHash(remote.sha256) /\ TruthyHash(localHash) /\ remote.sha256 # localHash
         THEN [p EXCEPT !.uploads = Append(@,
                [type |-> "upload", localFile |-> Some(local), remoteFile |-> None,
                 reason |-> "content changed"])]
         ELSE IF ~TruthyHash(remote.sha256)
         THEN [p EXCEPT !.uploads = Append(@,
                [type |-> "upload", localFile |-> Some(local), remoteFile |-> found,
                 reason |-> "missing remote hash"])]
         ELSE [p EXCEPT !.skips = Append(@,
                [type |-> "skip", localFile |-> Some(local), remoteFile |-> found,
                 reason |-> "unchanged"])]

\* the if / else-if chain over one local file and its lookup result
Classify(p, local, localHash, found) ==
    IF found = None
    THEN [p EXCEPT !.uploads = Append(@,
            [type |-> "upload", localFile |-> Some(local), remoteFile |-> None,
             reason |-> "new file"])]
    ELSE LET remote == found[1] IN
         IF TruthyHash(remote.sha256) /\ TruthyHash(localHash) /\ remote.sha256 # localHash
         THEN [p EXCEPT !.uploads = Append(@,
                [type |-> "upload", localFile |-> Some(local), remoteFile |-> found,
                 reason |-> "content changed"])]
         ELSE IF ~TruthyHash(remote.sha256)
         THEN [p EXCEPT !.uploads = Append(@,
                [type |-> "upload", localFile |-> Some(local), remoteFile |-> found,
                 reason |-> "missing remote hash"])]
         ELSE [p EXCEPT !.skips = Append(@,
                [type |-> "skip", localFile |-> Some(local), remoteFile |-> found,
                 reason |-> "unchanged"])]

\* the identity key of a local file: part_008 flattens, part_009 does not
IdentityKey(eng, relativePath) ==
    IF eng = "flatten" THEN pathToFilename(relativePath) ELSE verbatimPath(relativePath)

RECURSIVE ProcessLocals(_, _, _, _, _)
ProcessLocals(eng, locals, hashes, m, p) ==
    IF locals = <<>> THEN [plan |-> p, remoteByName |-> m]
    ELSE LET local == Head(locals)
             localHash == HashOf(hashes, local.absolutePath)
             localFileName == IdentityKey(eng, local.relativePath)
             found == MapGet(m, localFileName)
         IN  ProcessLocals(eng, Tail(locals), hashes,
                 MapDelete(m, localFileName),
                 Classify(p, local, localHash, found))

\* Remaining remote files are orphans
Orphans(m, p, del) ==
    IF del
    THEN [p EXCEPT !.deletes =
            [i \in 1..Len(m) |->
                [type |-> "delete", localFile |-> None, remoteFile |-> Some(m[i][2]),
                 reason |-> "not in local"]]]
    ELSE p

BuildPlan(eng, locals, hashes, remotes, del) ==
    LET remoteByName == IndexRemotes(remotes, <<>>)
        done == ProcessLocals(eng, locals, hashes, remoteByName, EmptyPlan)
    IN  Orphans(done.remoteByName, done.plan, del)

\* the sync engine that flattens path separators
buildSyncPlan(locals, hashes, remotes, del) ==
    BuildPlan("flatten", locals, hashes, remotes, del)

\* the sync engine that looks the relative path up verbatim
buildSyncPlanVerbatim(locals, hashes, remotes, del) ==
    BuildPlan("verbatim", locals, hashes, remotes, del)

----------------------------------------------------------------------------
(* uploader: the queue, uploadWithRetry, executeUploads, executeDeletes *)

DEFAULT_MAX_RETRIES == 3

DEFAULT_BASE_DELAY_MS == 1000

DEFAULT_CONCURRENCY == 8

\* config.concurrency || 8 ; the default parameter value of executeDeletes
ResolveConcurrency(setting) == IF setting = 0 THEN DEFAULT_CONCURRENCY ELSE setting

\* config.maxRetries ?? DEFAULT_MAX_RETRIES
ResolveMaxRetries(setting) == IF setting = None THEN DEFAULT_MAX_RETRIES ELSE setting[1]

RECURSIVE Pow2(_)
Pow2(n) == IF n = 0 THEN 1 ELSE 2 * Pow2(n - 1)

\* mutant: the exponent is the attempt number
BackoffDelayDoubled(attempt) == DEFAULT_BASE_DELAY_MS * Pow2(attempt)

\* baseDelayMs * Math.pow(2, attempt - 1)
BackoffDelay(attempt) == DEFAULT_BASE_DELAY_MS * Pow2(attempt - 1)

\* error.includes('400') || error.includes('403')
IsClientError(message) ==
    \E k \in 1..Len(message) : message[k] \in {"400", "403"}

\* the executor's mutable state, as one record
ExecState ==
    [task |-> task, pending |-> pending, active |-> active, results |-> results,
     progress |-> progress, calls |-> calls, delays |-> delays]

UploadResult(i, success, error, retries, cancelled) ==
    [action |-> actions[i], success |-> success, error |-> error,
     retries |-> retries, cancelled |-> cancelled]

CancelledResult(i, retries) == UploadResult(i, FALSE, Some(<<"Cancelled">>), retries, TRUE)

DeleteResult(i, success, error) ==
    [action |-> actions[i], success |-> success, error |-> error]

\* mutant: the queue starts a function whenever one is waiting
QueueUnbounded(e) == TRUE

\* newQueue(concurrency): a waiting function starts only while active < concurrency
QueueHasSlot(e) == e.active < concurrency

\* mutant: the loop runs while attempt < maxRetries
LoopContinuesStrict(attempt) == attempt < maxRetries

\* mutant: the loop makes one attempt more
LoopContinuesLoose(attempt) == attempt <= maxRetries + 1

\* for (let attempt = 0; attempt <= maxRetries; attempt++)
LoopContinues(attempt) == attempt <= maxRetries

\* mutant: the signal is not handed to uploadWithRetry
SignalNotPassed == FALSE

\* signal?.aborted as uploadWithRetry reads it
SignalAborted == aborted

RECURSIVE SettleUpload(_, _, _), RunQueue(_), UploadLoop(_, _, _, _), UploadEnter(_, _)

\* client.uploadFile(...) is called: the function waits for its outcome
UploadCall(e, i, attempt, lastError) ==
    [e EXCEPT !.task[i] = [st |-> "call", attempt |-> attempt, lastError |-> lastError],
              !.calls[i] = @ + 1]

\* the for loop of uploadWithRetry from its test for `attempt` up to the next await
UploadLoop(e, i, attempt, lastError) ==
    IF ~LoopContinues(attempt)
    THEN SettleUpload(e, i, UploadResult(i, FALSE, lastError, maxRetries, FALSE))
    ELSE IF SignalAborted
    THEN SettleUpload(e, i, CancelledResult(i, attempt))
    ELSE IF attempt > 0
    THEN [e EXCEPT !.task[i] = [st |-> "sleep", attempt |-> attempt,
                                lastError |-> lastError],
                   !.delays[i] = Append(@, BackoffDelay(attempt))]
    ELSE UploadCall(e, i, attempt, lastError)

\* uploadWithRetry from its entry up to the first await
UploadEnter(e, i) ==
    IF actions[i].localFile = None
    THEN SettleUpload(e, i, UploadResult(i, FALSE, Some(<<"No local file">>), 0, FALSE))
    ELSE IF SignalAborted
    THEN SettleUpload(e, i, CancelledResult(i, 0))
    ELSE UploadLoop(e, i, 0, None)

\* mutant: a failed upload empties the queue
SettleUploadStopsBatch(e, i, result) ==
    RunQueue([e EXCEPT !.task[i] = [st |-> "done", attempt |-> result.retries,
                                    lastError |-> result.error],
                       !.results = Append(@, result),
                       !.progress = Append(@, result),
                       !.active = @ - 1,
                       !.pending = IF result.success THEN @ ELSE <<>>])

\* mutant: the queue never learns that a function has ended
SettleUploadKeepsSlot(e, i, result) ==
    RunQueue([e EXCEPT !.task[i] = [st |-> "done", attempt |-> result.retries,
                                    lastError |-> result.error],
                       !.results = Append(@, result),
                       !.progress = Append(@, result)])

\* the queued function of executeUploads after uploadWithRetry returned, then
\* the queue's afterRun: the slot is freed and the next function may start
SettleUpload(e, i, result) ==
    RunQueue([e EXCEPT !.task[i] = [st |-> "done", attempt |-> result.retries,
                                    lastError |-> result.error],
                       !.results = Append(@, result),
                       !.progress = Append(@, result),
                       !.active = @ - 1])

\* the queue's run(): start the head of the queue if a slot is free
RunQueue(e) ==
    IF e.pending # <<>> /\ QueueHasSlot(e)
    THEN LET i == Head(e.pending)
             started == [e EXCEPT !.pending = Tail(@), !.active = @ + 1]
         IN  IF batch = "uploads"
             THEN UploadEnter(started, i)
             ELSE [started EXCEPT !.task[i] = [st |-> "call", attempt |-> 0,
                                               lastError |-> None],
                                  !.calls[i] = @ + 1]
    ELSE e

\* queue.add(fn)
QueueAdd(e, i) ==
    RunQueue([e EXCEPT !.pending = Append(@, i),
                       !.task[i] = [st |-> "queued", attempt |-> 0, lastError |-> None]])

\* mutant: the loop of executeUploads leaves at the signal, as that of
\* executeDeletes does
RECURSIVE UploadsLoopBreaks(_, _)
UploadsLoopBreaks(e, i) ==
    IF i > Len(actions) THEN e
    ELSE IF aborted THEN e
    ELSE UploadsLoopBreaks(QueueAdd(e, i), i + 1)

\* the for loop of executeUploads over actions[i..]
RECURSIVE UploadsLoop(_, _)
UploadsLoop(e, i) ==
    IF i > Len(actions) THEN e
    ELSE IF aborted
    THEN UploadsLoop([e EXCEPT !.results = Append(@, CancelledResult(i, 0)),
                               !.task[i] = [st |-> "done", attempt |-> 0,
                                            lastError |-> Some(<<"Cancelled">>)]],
                     i + 1)
    ELSE UploadsLoop(QueueAdd(e, i), i + 1)

\* the for loop of executeDeletes over actions[i..]
RECURSIVE DeletesLoop(_, _)
DeletesLoop(e, i) ==
    IF i > Len(actions) THEN e
    ELSE IF aborted THEN e
    ELSE IF actions[i].remoteFile = None
    THEN DeletesLoop([e EXCEPT !.results = Append(@,
                          DeleteResult(i, FALSE, Some(<<"No remote file">>))),
                               !.task[i] = [st |-> "done", attempt |-> 0,
                                            lastError |-> Some(<<"No remote file">>)]],
                     i + 1)
    ELSE DeletesLoop(QueueAdd(e, i), i + 1)

\* the answers the fetch of client.uploadFile can get: an HTTP response (its
\* status, and the message of its JSON body), or a rejection.  202 is the
\* upload route's success, 400 its answer to a request without a file, 500
\* carries the message of the error the server caught (a message of the
\* remote service may quote a status code of its own)
UploadAnswers ==
    { [thrown |-> FALSE, status |-> 202, message |-> <<>>],
      [thrown |-> FALSE, status |-> 500, message |-> <<"Internal error">>],
      [thrown |-> FALSE, status |-> 500, message |-> <<"got status: ", "403", " Forbidden">>],
      [thrown |-> FALSE, status |-> 400, message |-> <<"No file provided">>],
      [thrown |-> TRUE, status |-> 0, message |-> <<"fetch failed">>] }

\* response.ok
ResponseOk(status) == status >= 200 /\ status <= 299

\* client.uploadFile on an answer: { success: true }, { success: false, error }
\* with the message of the body, or the thrown error
uploadFile(answer) ==
    [kind |-> IF answer.thrown THEN "throw"
              ELSE IF ResponseOk(answer.status) THEN "ok" ELSE "error",
     status |-> answer.status,
     message |-> answer.message]

UploadOutcomes == {uploadFile(answer) : answer \in UploadAnswers}

\* what client.deleteFile can do: return, throw for a response that is not ok,
\* or throw because the signal aborted its fetch
DeleteOutcomes ==
    { [kind |-> "ok", message |-> <<>>],
      [kind |-> "throw", message |-> <<"Failed to delete file: ", "Internal error">>],
      [kind |-> "throw", message |-> <<"This operation was aborted">>] }

\* fetch(url, { signal }) rejects with its abort error only once the signal is set
DeleteCanGive(outcome) == outcome.message = <<"This operation was aborted">> => aborted

\* the try / catch around client.uploadFile, then the rest of the loop body
UploadSettles(e, i, outcome) ==
    LET attempt == e.task[i].attempt IN
    IF outcome.kind = "ok"
    THEN SettleUpload(e, i, UploadResult(i, TRUE, None, attempt, FALSE))
    ELSE IF outcome.kind = "error"
    THEN IF IsClientError(outcome.message)
         THEN SettleUpload(e, i,
                  UploadResult(i, FALSE, Some(outcome.message), maxRetries, FALSE))
         ELSE UploadLoop(e, i, attempt + 1, Some(outcome.message))
    ELSE IF SignalAborted
    THEN SettleUpload(e, i, CancelledResult(i, attempt))
    ELSE UploadLoop(e, i, attempt + 1, Some(outcome.message))

\* mutant: a failed delete is attempted again
DeleteSettlesRetries(e, i, outcome) ==
    IF outcome.kind = "ok"
    THEN RunQueue([e EXCEPT !.task[i] = [st |-> "done", attempt |-> 0, lastError |-> None],
                            !.results = Append(@, DeleteResult(i, TRUE, None)),
                            !.active = @ - 1])
    ELSE [e EXCEPT !.calls[i] = @ + 1]

\* the try / catch around client.deleteFile, then the queue's afterRun
DeleteSettles(e, i, outcome) ==
    LET error == IF outcome.kind = "ok" THEN None ELSE Some(outcome.message)
    IN  RunQueue([e EXCEPT !.task[i] = [st |-> "done", attempt |-> 0, lastError |-> error],
                           !.results = Append(@, DeleteResult(i, outcome.kind = "ok", error)),
                           !.active = @ - 1])

SetExec(e) ==
    /\ task' = e.task
    /\ pending' = e.pending
    /\ active' = e.active
    /\ results' = e.results
    /\ progress' = e.progress
    /\ calls' = e.calls
    /\ delays' = e.delays

execConfig == <<batch, actions, concurrency, maxRetries>>

\* executeUploads up to `await queue.done()`
ExecuteUploads ==
    /\ pc = "exec"
    /\ batch = "uploads"
    /\ SetExec(UploadsLoop(ExecState, 1))
    /\ pc' = "running"
    /\ UNCHANGED <<planVars, execConfig, aborted, answers, syncVars, cmdVars,
                   gracefulVars, hashVars, serverVars>>

\* executeDeletes up to `await queue.done()`
ExecuteDeletes ==
    /\ pc = "exec"
    /\ batch = "deletes"
    /\ SetExec(DeletesLoop(ExecState, 1))
    /\ pc' = "running"
    /\ UNCHANGED <<planVars, execConfig, aborted, answers, syncVars, cmdVars,
                   gracefulVars, hashVars, serverVars>>

\* client.uploadFile of action i returns or throws
UploadResponds(i, outcome) ==
    /\ pc = "running"
    /\ batch = "uploads"
    /\ task[i].st = "call"
    /\ SetExec(UploadSettles(ExecState, i, outcome))
    /\ answers' = IF answers = <<>> THEN answers
                  ELSE [answers EXCEPT ![i] = Append(@, outcome)]
    /\ UNCHANGED <<pc, planVars, execConfig, aborted, syncVars, cmdVars,
                   gracefulVars, hashVars, serverVars>>

\* the backoff timer of action i fires: the attempt is made
BackoffElapses(i) ==
    /\ pc = "running"
    /\ batch = "uploads"
    /\ task[i].st = "sleep"
    /\ SetExec(UploadCall(ExecState, i, task[i].attempt, task[i].lastError))
    /\ UNCHANGED <<pc, planVars, execConfig, aborted, answers, syncVars, cmdVars,
                   gracefulVars, hashVars, serverVars>>

\* client.deleteFile of action i returns or throws
DeleteResponds(i, outcome) ==
    /\ pc = "running"
    /\ batch = "deletes"
    /\ task[i].st = "call"
    /\ DeleteCanGive(outcome)
    /\ SetExec(DeleteSettles(ExecState, i, outcome))
    /\ UNCHANGED <<pc, planVars, execConfig, aborted, answers, syncVars, cmdVars,
                   gracefulVars, hashVars, serverVars>>

\* mutant: the executor returns without waiting for its queue
ExecutorReturnsEarly ==
    /\ pc = "running"
    /\ pc' = "returned"
    /\ UNCHANGED <<planVars, execVars, syncVars, cmdVars,
                   gracefulVars, hashVars, serverVars>>

\* queue.done() resolves and the executor returns its results
ExecutorReturns ==
    /\ pc = "running"
    /\ active = 0
    /\ pending = <<>>
    /\ pc' = "returned"
    /\ UNCHANGED <<planVars, execVars, syncVars, cmdVars,
                   gracefulVars, hashVars, serverVars>>

\* mutant: the handler does not remember that it ran
handlerForgets ==
    /\ signals' = signals + 1
    /\ aborted' = TRUE
    /\ shutdowns' = shutdowns + 1
    /\ UNCHANGED isShuttingDown

\* graceful's handler of SIGINT and SIGTERM up to process.exit(1), which the
\* action that delivers the signal carries out
handler ==
    /\ signals' = signals + 1
    /\ IF isShuttingDown
       THEN UNCHANGED <<isShuttingDown, aborted, shutdowns>>
       ELSE /\ isShuttingDown' = TRUE
            /\ aborted' = TRUE
            /\ shutdowns' = shutdowns + 1

\* the first SIGINT / SIGTERM while the executor is called or runs
Abort ==
    /\ pc \in {"exec", "running"}
    /\ ~aborted
    /\ handler
    /\ UNCHANGED <<pc, planVars, execConfig, task, pending, active, results, progress,
                   calls, delays, answers, syncVars, cmdVars, serverVars, hashVars>>

----------------------------------------------------------------------------
(* The store round trip: ApiClient.uploadFile / listFiles / deleteFile against *)
(* the API server's gemini.uploadFile / listFiles / deleteFile                 *)

Contents == {"X", "Y"}

\* crypto.createHash('sha256').update(content).digest('hex')
Sha256(content) == IF content = "X" THEN "hashX" ELSE "hashY"

RECURSIVE basename(_)
\* path.basename(displayName): what follows the last "/"
basename(path) ==
    IF path = <<>> THEN <<>>
    ELSE IF \E k \in 1..Len(path) : path[k] = "/"
    THEN basename(Tail(path))
    ELSE path

\* the multipart file name ApiClient.uploadFile gives the upload
UploadFileName(displayName) == basename(displayName)

StoreDoc(id, displayName, originalFileName, sha256) ==
    [name |-> <<"documents", id>>,
     displayName |-> displayName,
     originalFileName |-> originalFileName,
     sha256 |-> sha256,
     state |-> "STATE_ACTIVE"]

RECURSIVE WithoutName(_, _)
\* the documents left when those of one originalFileName are deleted
WithoutName(docs, displayName) ==
    IF docs = <<>> THEN <<>>
    ELSE IF Head(docs).originalFileName = displayName
    THEN WithoutName(Tail(docs), displayName)
    ELSE <<Head(docs)>> \o WithoutName(Tail(docs), displayName)

\* gemini.uploadFile, every step succeeding: the documents of the same
\* originalFileName are deleted, the file is imported with its metadata
ServerUpload(st, content, displayName) ==
    [docs |-> Append(WithoutName(st.docs, displayName),
                     StoreDoc(st.next, displayName, displayName, Sha256(content))),
     next |-> st.next + 1]

RECURSIVE WithoutDoc(_, _)
WithoutDoc(docs, name) ==
    IF docs = <<>> THEN <<>>
    ELSE IF Head(docs).name = name THEN WithoutDoc(Tail(docs), name)
    ELSE <<Head(docs)>> \o WithoutDoc(Tail(docs), name)

\* gemini.deleteFile succeeding
ServerDelete(st, name) == [st EXCEPT !.docs = WithoutDoc(@, name)]

HasDoc(docs, name) == \E k \in 1..Len(docs) : docs[k].name = name

\* the remote service answering DELETE of a document: the document is removed,
\* or the store holds no such document and the answer is "not found"
RemoteDeletes(st, name) ==
    IF HasDoc(st.docs, name)
    THEN [status |-> 200, message |-> <<>>, store |-> ServerDelete(st, name)]
    ELSE [status |-> 404, message |-> <<"Requested entity was not found">>, store |-> st]

\* fetchApi on an answer of the remote service: the Error it throws, if any
fetchApi(answer) ==
    IF ResponseOk(answer.status) THEN None
    ELSE Some(IF answer.message # <<>> THEN answer.message
              ELSE <<"HTTP ", answer.status>>)

\* router.delete('/:storeName/files/:fileName'): 204, or 500 with the message
\* of whatever gemini.deleteFile threw
DeleteRoute(st, name) ==
    LET answer == RemoteDeletes(st, name)
        thrown == fetchApi(answer)
    IN  [remote |-> answer.status,
         status |-> IF thrown = None THEN 204 ELSE 500,
         message |-> IF thrown = None THEN <<>> ELSE thrown[1],
         store |-> answer.store]

\* ApiClient.deleteFile on a response: it returns, or throws for a response
\* that is neither ok nor 404
ClientDeleteFile(response) ==
    IF ~ResponseOk(response.status) /\ response.status # 404
    THEN [kind |-> "throw", message |-> <<"Failed to delete file: ">> \o response.message]
    ELSE [kind |-> "ok", message |-> <<>>]

\* gemini.listFiles, then the mapping of ApiClient.listFiles:
\* originalFileName: f.originalDisplayName || f.displayName
ClientList(st) ==
    [k \in 1..Len(st.docs) |->
        [name |-> st.docs[k].name,
         displayName |-> st.docs[k].displayName,
         originalFileName |-> IF TruthyName(st.docs[k].originalFileName)
                              THEN st.docs[k].originalFileName
                              ELSE st.docs[k].displayName,
         sha256 |-> st.docs[k].sha256,
         state |-> st.docs[k].state]]

\* computeHashes, never aborted
ComputeHashes(files, content) ==
    [a \in {files[k].absolutePath : k \in 1..Len(files)} |-> Sha256(content[a])]

\* steps 4 to 7 of the sync command: hash, list, plan; a plan without
\* uploads and deletes ends the run
SyncPlans ==
    /\ pc = "sync"
    /\ LET hashes == ComputeHashes(localFiles, localContent)
           listing == ClientList(store)
           built == BuildPlan(engine, localFiles, hashes, listing, deleteRemote)
           idle == built.uploads = <<>> /\ built.deletes = <<>>
       IN  /\ localHashes' = hashes
           /\ remoteFiles' = listing
           /\ plan' = built
           /\ left' = [uploads |-> 1..Len(built.uploads), deletes |-> 1..Len(built.deletes)]
           /\ pc' = IF run = 2 THEN "replanned" ELSE IF idle THEN "sync" ELSE "transfer"
           /\ run' = IF run = 1 /\ idle THEN 2 ELSE run
    /\ UNCHANGED <<localFiles, deleteRemote, engine, execVars, localContent, store, cmdVars,
                   gracefulVars, hashVars, serverVars>>

\* an upload of the plan succeeds
SyncUploads(k) ==
    /\ pc = "transfer"
    /\ k \in left.uploads
    /\ LET local == plan.uploads[k].localFile[1]
       IN  store' = ServerUpload(store, localContent[local.absolutePath],
                                 UploadFileName(local.relativePath))
    /\ left' = [left EXCEPT !.uploads = @ \ {k}]
    /\ UNCHANGED <<pc, planVars, execVars, localContent, run, cmdVars,
                   gracefulVars, hashVars, serverVars>>

\* a delete of the plan is sent to the API server and answered, the result is
\* recorded as executeDeletes does; deletes start when the uploads are over
SyncDeletes(k) ==
    /\ pc = "transfer"
    /\ left.uploads = {}
    /\ k \in left.deletes
    /\ LET served == DeleteRoute(store, plan.deletes[k].remoteFile[1].name)
           outcome == ClientDeleteFile(served)
       IN  /\ store' = served.store
           /\ responses' = Append(responses,
                  [remote |-> served.remote, status |-> served.status,
                   message |-> served.message])
           /\ results' = Append(results,
                  [action |-> plan.deletes[k],
                   success |-> outcome.kind = "ok",
                   error |-> IF outcome.kind = "ok" THEN None ELSE Some(outcome.message)])
    /\ left' = [left EXCEPT !.deletes = @ \ {k}]
    /\ UNCHANGED <<pc, planVars, execConfig, aborted, task, pending, active, progress,
                   calls, delays, answers, localContent, run, cmdVars, gracefulVars, hashVars,
                   env, requests, geminiCalls>>

\* the first run is complete: sync is run again
SyncAgain ==
    /\ pc = "transfer"
    /\ left.uploads = {}
    /\ left.deletes = {}
    /\ pc' = "sync"
    /\ run' = 2
    /\ UNCHANGED <<planVars, execVars, localContent, store, left, cmdVars,
                   gracefulVars, hashVars, serverVars>>

----------------------------------------------------------------------------
(* Inputs of the planner *)

LocalPaths == << <<"a.txt">>, <<"b.txt">>, <<"d", "/", "a.txt">>, <<"d", "_", "a.txt">> >>

LocalDigests == {"hashX", "hashY"}

RemoteNames == { <<"a.txt">>, <<"c.txt">>, <<"d", "_", "a.txt">>, <<>> }

RemoteDigests == {"hashX", "hashZ", NoHash}

\* the scanned files, in the order of LocalPaths
LocalLists ==
    {s \in SeqsUpTo(1..Len(LocalPaths), MaxLocal) :
        \A i \in 1..Len(s) : \A j \in 1..Len(s) : i < j => s[i] < s[j]}

FilesOf(s) == [i \in 1..Len(s) |-> LocalFile(LocalPaths[s[i]])]

\* computeHashes: a digest per hashed file; files after an abort have none
HashMaps(files) ==
    UNION {[{files[i].absolutePath : i \in D} -> LocalDigests] :
              D \in SUBSET (1..Len(files))}

RemoteFile(i, originalFileName, sha256) ==
    [name |-> <<"documents", i>>,
     displayName |-> originalFileName,
     originalFileName |-> originalFileName,
     sha256 |-> sha256,
     state |-> "STATE_ACTIVE"]

RemoteLists ==
    {[i \in 1..Len(s) |-> RemoteFile(i, s[i][1], s[i][2])] :
        s \in SeqsUpTo(RemoteNames \X RemoteDigests, MaxRemote)}

----------------------------------------------------------------------------
(* The planner on its own: inputs drawn in Init, one call of buildSyncPlan *)

ExecIdle ==
    /\ batch = "none"
    /\ actions = <<>>
    /\ concurrency = DEFAULT_CONCURRENCY
    /\ maxRetries = DEFAULT_MAX_RETRIES
    /\ aborted = FALSE
    /\ task = <<>>
    /\ pending = <<>>
    /\ active = 0
    /\ results = <<>>
    /\ progress = <<>>
    /\ calls = <<>>
    /\ delays = <<>>
    /\ answers = <<>>

SyncIdle ==
    /\ localContent = <<>>
    /\ store = [docs |-> <<>>, next |-> 1]
    /\ run = 0
    /\ left = [uploads |-> {}, deletes |-> {}]

GracefulIdle ==
    /\ isShuttingDown = FALSE
    /\ shutdowns = 0
    /\ signals = 0

\* no read stream was opened
NoStream == [path |-> <<>>, st |-> "none", fed |-> <<>>, listening |-> FALSE]

HashIdle ==
    /\ reading = NoStream
    /\ settled = <<>>

ServerIdle ==
    /\ env = <<>>
    /\ requests = <<>>
    /\ responses = <<>>
    /\ geminiCalls = <<>>

CmdIdle ==
    /\ options = [yes |-> FALSE, dryRun |-> FALSE, concurrency |-> None]
    /\ config = None
    /\ reply = None
    /\ exitCode = None
    /\ output = <<>>
    /\ uploadResults = <<>>
    /\ work = [scans |-> 0, hashes |-> 0, lists |-> 0]

InitPlan ==
    /\ pc = "plan"
    /\ GracefulIdle
    /\ HashIdle
    /\ ServerIdle
    /\ ExecIdle
    /\ SyncIdle
    /\ CmdIdle
    /\ \E s \in LocalLists :
          /\ localFiles = FilesOf(s)
          /\ localHashes \in HashMaps(FilesOf(s))
    /\ remoteFiles \in RemoteLists
    /\ deleteRemote = FALSE
    /\ engine = "none"
    /\ plan = EmptyPlan

PlanFlatten(del) ==
    /\ pc = "plan"
    /\ pc' = "planned"
    /\ deleteRemote' = del
    /\ engine' = "flatten"
    /\ plan' = buildSyncPlan(localFiles, localHashes, remoteFiles, del)
    /\ UNCHANGED <<localFiles, localHashes, remoteFiles, execVars, syncVars, cmdVars,
                   gracefulVars, hashVars, serverVars>>

PlanVerbatim(del) ==
    /\ pc = "plan"
    /\ pc' = "planned"
    /\ deleteRemote' = del
    /\ engine' = "verbatim"
    /\ plan' = buildSyncPlanVerbatim(localFiles, localHashes, remoteFiles, del)
    /\ UNCHANGED <<localFiles, localHashes, remoteFiles, execVars, syncVars, cmdVars,
                   gracefulVars, hashVars, serverVars>>

NextPlan ==
    \/ \E del \in BOOLEAN : PlanFlatten(del)
    \/ \E del \in BOOLEAN : PlanVerbatim(del)


SpecPlan == InitPlan /\ [][NextPlan]_vars

----------------------------------------------------------------------------
(* The executor on its own: one call of executeUploads or executeDeletes *)

ConcurrencySettings == {0, 1, 2}

RetrySettings == {None, Some(1), Some(2)}

BatchFile(i) == <<"f", i>>

UploadActions(n) ==
    [i \in 1..n |->
        [type |-> "upload", localFile |-> Some(LocalFile(BatchFile(i))),
         remoteFile |-> None, reason |-> "new file"]]

DeleteActions(n) ==
    [i \in 1..n |->
        [type |-> "delete", localFile |-> None,
         remoteFile |-> Some(RemoteFile(i, BatchFile(i), "hashX")),
         reason |-> "not in local"]]

PlanIdle ==
    /\ localFiles = <<>>
    /\ localHashes = <<>>
    /\ remoteFiles = <<>>
    /\ deleteRemote = FALSE
    /\ engine = "none"
    /\ plan = EmptyPlan

InitExec ==
    /\ pc = "exec"
    /\ GracefulIdle
    /\ HashIdle
    /\ ServerIdle
    /\ PlanIdle
    /\ SyncIdle
    /\ CmdIdle
    /\ \E n \in 0..(MaxUploads + MaxDeletes) :
          /\ \/ /\ n <= MaxUploads
                /\ batch = "uploads"
                /\ actions = UploadActions(n)
                /\ maxRetries \in {ResolveMaxRetries(r) : r \in RetrySettings}
             \/ /\ n <= MaxDeletes
                /\ batch = "deletes"
                /\ actions = DeleteActions(n)
                /\ maxRetries = DEFAULT_MAX_RETRIES
          /\ task = [i \in 1..n |-> [st |-> "new", attempt |-> 0, lastError |-> None]]
          /\ calls = [i \in 1..n |-> 0]
          /\ delays = [i \in 1..n |-> <<>>]
    /\ concurrency \in {ResolveConcurrency(c) : c \in ConcurrencySettings}
    /\ aborted = FALSE
    /\ pending = <<>>
    /\ active = 0
    /\ results = <<>>
    /\ progress = <<>>
    /\ answers = <<>>

NextExec ==
    \/ ExecuteUploads
    \/ ExecuteDeletes
    \/ \E i \in 1..Len(actions) : \E o \in UploadOutcomes : UploadResponds(i, o)
    \/ \E i \in 1..Len(actions) : BackoffElapses(i)
    \/ \E i \in 1..Len(actions) : \E o \in DeleteOutcomes : DeleteResponds(i, o)
    \/ ExecutorReturns
    \/ Abort

SpecExec == InitExec /\ [][NextExec]_vars

\* the retry budgets of the batches whose end is awaited
DrainRetrySettings == {Some(1)}

\* the batches of InitExec with the retry budgets of DrainRetrySettings
InitDrain ==
    /\ InitExec
    /\ batch = "uploads" => maxRetries \in {ResolveMaxRetries(r) : r \in DrainRetrySettings}

\* what the executor does by itself: every step but the arrival of a signal
ExecSteps ==
    \/ ExecuteUploads
    \/ ExecuteDeletes
    \/ \E i \in 1..Len(actions) : \E o \in UploadOutcomes : UploadResponds(i, o)
    \/ \E i \in 1..Len(actions) : BackoffElapses(i)
    \/ \E i \in 1..Len(actions) : \E o \in DeleteOutcomes : DeleteResponds(i, o)
    \/ ExecutorReturns

\* The executor with its scheduling: the event loop runs what is ready, a
\* backoff timer fires, and a remote call that was begun returns or throws.
\* While some step of the executor is possible, one is eventually taken.
SpecDrain == InitDrain /\ [][NextExec]_vars /\ WF_vars(ExecSteps)

----------------------------------------------------------------------------
(* A batch of uploads whose answers are kept, the signal never set *)

\* the retry budgets of the batches whose answers are kept
AnswerRetrySettings == {Some(1)}

InitAnswers ==
    /\ pc = "exec"
    /\ GracefulIdle
    /\ HashIdle
    /\ ServerIdle
    /\ PlanIdle
    /\ SyncIdle
    /\ CmdIdle
    /\ batch = "uploads"
    /\ \E n \in 1..MaxUploads :
          /\ actions = UploadActions(n)
          /\ task = [i \in 1..n |-> [st |-> "new", attempt |-> 0, lastError |-> None]]
          /\ calls = [i \in 1..n |-> 0]
          /\ delays = [i \in 1..n |-> <<>>]
          /\ answers = [i \in 1..n |-> <<>>]
    /\ maxRetries \in {ResolveMaxRetries(r) : r \in AnswerRetrySettings}
    /\ concurrency \in {ResolveConcurrency(c) : c \in ConcurrencySettings}
    /\ aborted = FALSE
    /\ pending = <<>>
    /\ active = 0
    /\ results = <<>>
    /\ progress = <<>>

NextAnswers ==
    \/ ExecuteUploads
    \/ \E i \in 1..Len(actions) : \E o \in UploadOutcomes : UploadResponds(i, o)
    \/ \E i \in 1..Len(actions) : BackoffElapses(i)
    \/ ExecutorReturns

SpecAnswers == InitAnswers /\ [][NextAnswers]_vars

----------------------------------------------------------------------------
(* Two sync runs in a row against one store, every upload succeeding *)

\* the documents the store holds before the first run
StoreLists ==
    {[docs |-> [k \in 1..Len(t) |->
                   StoreDoc(k, IF t[k][1] = <<>> THEN <<"c.txt">> ELSE t[k][1],
                            t[k][1], t[k][2])],
      next |-> Len(t) + 1] :
        t \in SeqsUpTo(RemoteNames \X RemoteDigests, MaxStoreDocs)}

InitSync ==
    /\ pc = "sync"
    /\ GracefulIdle
    /\ HashIdle
    /\ ServerIdle
    /\ ExecIdle
    /\ CmdIdle
    /\ \E t \in LocalLists :
          /\ localFiles = FilesOf(t)
          /\ localContent \in [{FilesOf(t)[k].absolutePath : k \in 1..Len(t)} -> Contents]
    /\ localHashes = <<>>
    /\ remoteFiles = <<>>
    /\ deleteRemote \in BOOLEAN
    /\ engine \in {"flatten", "verbatim"}
    /\ plan = EmptyPlan
    /\ store \in StoreLists
    /\ run = 1
    /\ left = [uploads |-> {}, deletes |-> {}]

NextSync ==
    \/ SyncPlans
    \/ \E k \in 1..Len(plan.uploads) : SyncUploads(k)
    \/ \E k \in 1..Len(plan.deletes) : SyncDeletes(k)
    \/ SyncAgain

SpecSync == InitSync /\ [][NextSync]_vars

----------------------------------------------------------------------------
(* The sync command: its configuration, its errors, what it prints *)

DEFAULT_CONFIG_CONCURRENCY == 8

FALLBACK_CONCURRENCY == 8

\* a configuration file: whether it exists and can be read, what parseYaml
\* makes of it ("throws", "null" for a document without content, "map"), and
\* the fields of the map (include: the number of patterns; concurrency: 0 when
\* sync.concurrency is absent)
ConfigFile(exists, readable, yaml, hasStore, include, conc) ==
    [exists |-> exists, readable |-> readable, yaml |-> yaml, store |-> hasStore,
     include |-> include, concurrency |-> conc]

ConfigFiles ==
    { ConfigFile(FALSE, FALSE, "map", TRUE, 1, 0),
      ConfigFile(TRUE, FALSE, "map", TRUE, 1, 0),
      ConfigFile(TRUE, TRUE, "throws", TRUE, 1, 0),
      ConfigFile(TRUE, TRUE, "null", FALSE, 0, 0),
      ConfigFile(TRUE, TRUE, "map", FALSE, 1, 0),
      ConfigFile(TRUE, TRUE, "map", TRUE, 0, 0),
      ConfigFile(TRUE, TRUE, "map", TRUE, 1, 0) }

Thrown(class, message) == [class |-> class, message |-> message]

LoadFails(class, message) == [error |-> Some(Thrown(class, message)), concurrency |-> 0]

\* loadConfig: the ConfigError it throws, the TypeError of reading a field of
\* null, or the configuration merged with the defaults
loadConfig(file) ==
    IF ~file.exists THEN LoadFails("ConfigError", <<"Config file not found">>)
    ELSE IF ~file.readable THEN LoadFails("ConfigError", <<"Failed to read config file">>)
    ELSE IF file.yaml = "throws" THEN LoadFails("ConfigError", <<"Failed to parse YAML">>)
    ELSE IF file.yaml = "null"
    THEN LoadFails("TypeError", <<"Cannot read properties of null">>)
    ELSE IF ~file.store THEN LoadFails("ConfigError", <<"Missing required field: store">>)
    ELSE IF file.include = 0
    THEN LoadFails("ConfigError", <<"Missing required field: collect.include">>)
    ELSE [error |-> None,
          concurrency |-> IF file.concurrency = 0 THEN DEFAULT_CONFIG_CONCURRENCY
                          ELSE file.concurrency]

DEFAULT_OPTION_CONCURRENCY == 8

\* parseInt(options.concurrency): the option is the number given with the
\* flag (0 for a text parseInt makes NaN of), and the default value of the
\* option, '8', when the flag is not on the command line
parseInt(flag) == IF flag = None THEN DEFAULT_OPTION_CONCURRENCY ELSE flag[1]

\* parseInt(options.concurrency) || config.sync?.concurrency || 8, the option
\* being 0 when parseInt gives NaN or 0
SyncConcurrency(option, configured) ==
    IF option # 0 THEN option
    ELSE IF configured # 0 THEN configured
    ELSE FALLBACK_CONCURRENCY

AbortError == Thrown("AbortError", <<"Operation cancelled by user">>)

\* graceful.checkAborted(): the error it throws, if any
CheckAborted == IF aborted THEN Some(AbortError) ELSE None

\* the catch of the command: the code it gives to process.exit
ExitCodeOf(error) ==
    IF error.class = "AbortError" THEN 130
    ELSE IF error.class = "ConfigError" THEN 2
    ELSE 1

Printed(kind, data) == [kind |-> kind, data |-> data]

\* process.exit(code) after the lines were printed
Exits(code, lines) ==
    /\ pc' = "exited"
    /\ exitCode' = Some(code)
    /\ output' = output \o lines

\* mutant: the catch prints the error and the run goes on to the listing
CatchGoesOn(error) ==
    /\ pc' = "list"
    /\ output' = Append(output, Printed("error", error.message))
    /\ UNCHANGED exitCode

\* the catch of the command
Catch(error) ==
    Exits(ExitCodeOf(error),
          <<Printed(IF error.class = "AbortError" THEN "cancelled by user"
                    ELSE IF error.class = "ConfigError" THEN "config error"
                    ELSE "error",
                    error.message)>>)

\* the command goes on to its next await, or to its catch
Proceed(error, next) ==
    IF error = None
    THEN pc' = next /\ UNCHANGED <<exitCode, output>>
    ELSE Catch(error[1])

Succeeded(r) == r.success

UploadFailed(r) == ~r.success /\ ~r.cancelled

UploadCancelled(r) == r.cancelled

DeleteFailed(r) == ~r.success

buildSummary(uploads, deletes, skipped) ==
    [uploaded |-> [success |-> Len(SelectSeq(uploads, Succeeded)),
                   failed |-> Len(SelectSeq(uploads, UploadFailed))],
     deleted |-> [success |-> Len(SelectSeq(deletes, Succeeded)),
                  failed |-> Len(SelectSeq(deletes, DeleteFailed))],
     skipped |-> skipped,
     cancelled |-> Len(SelectSeq(uploads, UploadCancelled))]

FailureLine(r) ==
    [file |-> IF r.action.localFile # None
              THEN r.action.localFile[1].relativePath
              ELSE r.action.remoteFile[1].originalFileName,
     error |-> r.error]

\* the lines of formatFailures, one per failed action
formatFailures(uploads, deletes) ==
    LET failures == SelectSeq(uploads, UploadFailed) \o SelectSeq(deletes, DeleteFailed)
    IN  [k \in 1..Len(failures) |-> FailureLine(failures[k])]

\* mutant: the failed deletes are not looked at
HasErrorsUploadsOnly(uploads, deletes) ==
    \E k \in 1..Len(uploads) : UploadFailed(uploads[k])

HasErrors(uploads, deletes) ==
    \/ \E k \in 1..Len(uploads) : UploadFailed(uploads[k])
    \/ \E k \in 1..Len(deletes) : DeleteFailed(deletes[k])

\* steps 12 and 13: the summary, the failures if any, the exit code
Finish(uploads, deletes) ==
    Exits(IF HasErrors(uploads, deletes) THEN 1 ELSE 0,
          <<Printed("summary", buildSummary(uploads, deletes, Len(plan.skips)))>>
          \o (IF formatFailures(uploads, deletes) = <<>> THEN <<>>
              ELSE <<Printed("failures", formatFailures(uploads, deletes))>>))

RECURSIVE trimStart(_), trimEnd(_)
trimStart(text) ==
    IF text # <<>> /\ Head(text) = " " THEN trimStart(Tail(text)) ELSE text

trimEnd(text) ==
    IF text # <<>> /\ text[Len(text)] = " "
    THEN trimEnd(SubSeq(text, 1, Len(text) - 1))
    ELSE text

toLowerCase(text) ==
    [k \in 1..Len(text) |->
        IF text[k] = "YES" THEN "yes" ELSE IF text[k] = "Yes" THEN "yes" ELSE text[k]]

\* mutant: whatever is typed approves
confirmSyncAny(typed) == TRUE

\* confirmSync on a typed line: answer.trim().toLowerCase() === 'yes'
confirmSync(typed) == toLowerCase(trimEnd(trimStart(typed))) = <<"yes">>

\* the executor is given a batch
StartBatch(kind, acts) ==
    /\ batch' = kind
    /\ actions' = acts
    /\ task' = [i \in 1..Len(acts) |-> [st |-> "new", attempt |-> 0, lastError |-> None]]
    /\ calls' = [i \in 1..Len(acts) |-> 0]
    /\ delays' = [i \in 1..Len(acts) |-> <<>>]
    /\ pending' = <<>>
    /\ active' = 0
    /\ results' = <<>>
    /\ progress' = <<>>

NoBatch ==
    UNCHANGED <<batch, actions, task, pending, active, results, progress, calls, delays>>

\* steps 10 and 11 skip an empty collection
FirstBatch(p) == IF p.uploads # <<>> THEN "uploads" ELSE "deletes"

FirstActions(p) == IF p.uploads # <<>> THEN p.uploads ELSE p.deletes

----------------------------------------------------------------------------
(* The sync command: its steps, from one await to the next *)

CmdPaths == << <<"a.txt">>, <<"b.txt">> >>

CmdLocalLists ==
    {t \in SeqsUpTo(1..Len(CmdPaths), MaxCmdLocal) :
        \A i \in 1..Len(t) : \A j \in 1..Len(t) : i < j => t[i] < t[j]}

\* what scanFiles can do: resolve with the files found, or reject
ScanOutcomes ==
    {[kind |-> "ok", files |-> [i \in 1..Len(t) |-> LocalFile(CmdPaths[t[i]])],
      message |-> <<>>] : t \in CmdLocalLists}
    \cup {[kind |-> "throw", files |-> <<>>, message |-> <<"EACCES: permission denied">>]}

\* what the read stream of computeSha256 can do: end, or emit an error
HashOutcomes ==
    { [kind |-> "ok", digest |-> "hashX", message |-> <<>>],
      [kind |-> "throw", digest |-> NoHash, message |-> <<"EIO: i/o error">>] }

CmdRemoteNames == { <<"a.txt">>, <<"c.txt">> }

CmdRemoteDigests == {"hashX", "hashZ"}

\* what client.listFiles can do: resolve with the listing, or throw
ListOutcomes ==
    {[kind |-> "ok", files |-> [i \in 1..Len(t) |-> RemoteFile(i, t[i][1], t[i][2])],
      message |-> <<>>] : t \in SeqsUpTo(CmdRemoteNames \X CmdRemoteDigests, MaxCmdRemote)}
    \cup {[kind |-> "throw", files |-> <<>>, message |-> <<"Failed to list files">>]}

\* the answers to the uploads of a sync run
CmdUploadOutcomes == {o \in UploadOutcomes : o.kind \in {"ok", "throw"}}

\* the lines typed at the confirmation prompt
Replies == { <<"yes">>, <<" ", "YES", " ">>, <<"y">>, <<>> }

\* --concurrency: not given, or given with 1
CmdFlags == {None, Some(1)}

CmdOptions == [yes : BOOLEAN, dryRun : BOOLEAN, concurrency : CmdFlags]

\* steps 1 to 3: the configuration is loaded, scanFiles is called
CmdLoadConfig(file) ==
    /\ pc = "start"
    /\ LET loaded == loadConfig(file)
           error == IF loaded.error # None THEN loaded.error ELSE CheckAborted
       IN  /\ Proceed(error, "scan")
           /\ concurrency' = IF loaded.error = None
                             THEN SyncConcurrency(parseInt(options.concurrency),
                                                  loaded.concurrency)
                             ELSE concurrency
           /\ config' = IF loaded.error = None
                        THEN Some([parsed |-> [concurrency |-> file.concurrency],
                                   sync |-> [concurrency |-> loaded.concurrency]])
                        ELSE config
           /\ work' = IF error = None THEN [work EXCEPT !.scans = @ + 1] ELSE work
    /\ NoBatch
    /\ UNCHANGED <<planVars, maxRetries, aborted, answers, syncVars, gracefulVars, hashVars, serverVars,
                   options, reply,
                   uploadResults>>

\* scanFiles settles; step 4 calls computeHashes, which starts on the first
\* file, or returns at once and step 5 calls client.listFiles
CmdScanned(outcome) ==
    /\ pc = "scan"
    /\ LET error == IF outcome.kind = "throw"
                    THEN Some(Thrown("Error", outcome.message))
                    ELSE CheckAborted
           next == IF outcome.files # <<>> THEN "hash" ELSE "list"
       IN  /\ Proceed(error, next)
           /\ localFiles' = IF outcome.kind = "ok" THEN outcome.files ELSE localFiles
           /\ work' = IF error # None THEN work
                      ELSE IF next = "hash" THEN [work EXCEPT !.hashes = @ + 1]
                      ELSE [work EXCEPT !.lists = @ + 1]
    /\ NoBatch
    /\ UNCHANGED <<localHashes, remoteFiles, deleteRemote, engine, plan, concurrency,
                   maxRetries, aborted, answers, syncVars, gracefulVars, hashVars, serverVars,
                   options, config, reply, uploadResults>>

\* the file computeHashes is reading
Hashing == localFiles[Cardinality(DOMAIN localHashes) + 1]

\* the read stream of computeSha256 ends or fails; computeHashes goes on with
\* the next file, or returns and step 5 calls client.listFiles
CmdHashed(outcome) ==
    /\ pc = "hash"
    /\ LET more == Cardinality(DOMAIN localHashes) + 1 < Len(localFiles) /\ ~aborted
           error == IF outcome.kind = "throw"
                    THEN Some(Thrown("Error", outcome.message))
                    ELSE IF more THEN None
                    ELSE CheckAborted
       IN  /\ Proceed(error, IF more THEN "hash" ELSE "list")
           /\ localHashes' = IF outcome.kind = "ok"
                             THEN (Hashing.absolutePath :> outcome.digest) @@ localHashes
                             ELSE localHashes
           /\ work' = IF error # None THEN work
                      ELSE IF more THEN [work EXCEPT !.hashes = @ + 1]
                      ELSE [work EXCEPT !.lists = @ + 1]
    /\ NoBatch
    /\ UNCHANGED <<localFiles, remoteFiles, deleteRemote, engine, plan, concurrency,
                   maxRetries, aborted, answers, syncVars, gracefulVars, hashVars, serverVars,
                   options, config, reply, uploadResults>>

\* mutant: --yes runs the plan whether or not --dry-run is given
CmdListedYesWins(outcome) ==
    /\ pc = "list"
    /\ LET error == IF outcome.kind = "throw"
                    THEN Some(Thrown("Error", outcome.message))
                    ELSE CheckAborted
           built == BuildPlan(engine, localFiles, localHashes, outcome.files, deleteRemote)
           shown == <<Printed("plan", built)>>
       IN  /\ remoteFiles' = IF outcome.kind = "ok" THEN outcome.files ELSE remoteFiles
           /\ IF error # None
              THEN Catch(error[1]) /\ UNCHANGED plan /\ NoBatch
              ELSE /\ plan' = built
                   /\ IF built.uploads = <<>> /\ built.deletes = <<>>
                      THEN Exits(0, shown \o <<Printed("up to date", <<>>)>>) /\ NoBatch
                      ELSE IF options.dryRun /\ ~options.yes
                      THEN Exits(0, shown \o <<Printed("dry run", <<>>)>>) /\ NoBatch
                      ELSE IF ~options.yes
                      THEN /\ pc' = "confirm"
                           /\ output' = output \o shown
                           /\ UNCHANGED exitCode
                           /\ NoBatch
                      ELSE /\ pc' = "exec"
                           /\ output' = output \o shown
                           /\ UNCHANGED exitCode
                           /\ StartBatch(FirstBatch(built), FirstActions(built))
    /\ UNCHANGED <<localFiles, localHashes, deleteRemote, engine, concurrency, maxRetries,
                   aborted, answers, syncVars, gracefulVars, hashVars, serverVars,
                   options, config, reply, uploadResults, work>>

\* client.listFiles settles; steps 6 to 9 build and print the plan, end the
\* run if there is nothing to do or under --dry-run, ask for confirmation, or
\* under --yes go on to the executor
CmdListed(outcome) ==
    /\ pc = "list"
    /\ LET error == IF outcome.kind = "throw"
                    THEN Some(Thrown("Error", outcome.message))
                    ELSE CheckAborted
           built == BuildPlan(engine, localFiles, localHashes, outcome.files, deleteRemote)
           shown == <<Printed("plan", built)>>
       IN  /\ remoteFiles' = IF outcome.kind = "ok" THEN outcome.files ELSE remoteFiles
           /\ IF error # None
              THEN Catch(error[1]) /\ UNCHANGED plan /\ NoBatch
              ELSE /\ plan' = built
                   /\ IF built.uploads = <<>> /\ built.deletes = <<>>
                      THEN Exits(0, shown \o <<Printed("up to date", <<>>)>>) /\ NoBatch
                      ELSE IF options.dryRun
                      THEN Exits(0, shown \o <<Printed("dry run", <<>>)>>) /\ NoBatch
                      ELSE IF ~options.yes
                      THEN /\ pc' = "confirm"
                           /\ output' = output \o shown
                           /\ UNCHANGED exitCode
                           /\ NoBatch
                      ELSE /\ pc' = "exec"
                           /\ output' = output \o shown
                           /\ UNCHANGED exitCode
                           /\ StartBatch(FirstBatch(built), FirstActions(built))
    /\ UNCHANGED <<localFiles, localHashes, deleteRemote, engine, concurrency, maxRetries,
                   aborted, answers, syncVars, gracefulVars, hashVars, serverVars,
                   options, config, reply, uploadResults, work>>

\* a line is typed at the prompt of confirmSync
CmdAnswered(typed) ==
    /\ pc = "confirm"
    /\ reply' = Some(typed)
    /\ IF ~confirmSync(typed)
       THEN Exits(0, <<Printed("cancelled", <<"No changes were made">>)>>) /\ NoBatch
       ELSE IF aborted
       THEN Catch(AbortError) /\ NoBatch
       ELSE /\ pc' = "exec"
            /\ UNCHANGED <<exitCode, output>>
            /\ StartBatch(FirstBatch(plan), FirstActions(plan))
    /\ UNCHANGED <<planVars, concurrency, maxRetries, aborted, answers, syncVars, gracefulVars, hashVars, serverVars,
                   options, config,
                   uploadResults, work>>

\* executeUploads has returned; step 11 calls executeDeletes, or steps 12 and
\* 13 end the run
CmdUploadsReturned ==
    /\ pc = "returned"
    /\ batch = "uploads"
    /\ uploadResults' = results
    /\ IF aborted
       THEN Catch(AbortError) /\ NoBatch
       ELSE IF plan.deletes # <<>>
       THEN /\ pc' = "exec"
            /\ UNCHANGED <<exitCode, output>>
            /\ StartBatch("deletes", plan.deletes)
       ELSE Finish(results, <<>>) /\ NoBatch
    /\ UNCHANGED <<planVars, concurrency, maxRetries, aborted, answers, syncVars, gracefulVars, hashVars, serverVars,
                   options, config,
                   reply, work>>

\* executeDeletes has returned; steps 12 and 13 end the run
CmdDeletesReturned ==
    /\ pc = "returned"
    /\ batch = "deletes"
    /\ Finish(uploadResults, results)
    /\ UNCHANGED <<planVars, execVars, syncVars, gracefulVars, hashVars, serverVars,
                   options, config, reply, uploadResults, work>>

\* SIGINT / SIGTERM while the command waits.  The first aborts the signal: a
\* read stream of computeSha256 rejects with Error('Aborted'), the prompt
\* resolves with null, a fetch in flight rejects when it settles.  A second
\* one calls process.exit(1).
CmdSignal ==
    /\ pc \in {"scan", "hash", "list", "confirm", "running"}
    /\ handler
    /\ IF isShuttingDown
       THEN /\ pc' = "killed"
            /\ exitCode' = Some(1)
            /\ UNCHANGED output
       ELSE IF pc = "hash" THEN Catch(Thrown("Error", <<"Aborted">>))
       ELSE IF pc = "confirm"
       THEN Exits(0, <<Printed("cancelled", <<"No changes were made">>)>>)
       ELSE UNCHANGED <<pc, exitCode, output>>
    /\ NoBatch
    /\ UNCHANGED <<planVars, concurrency, maxRetries, answers, syncVars, serverVars,
                   hashVars, options, config, reply, uploadResults, work>>

InitCmd ==
    /\ pc = "start"
    /\ GracefulIdle
    /\ HashIdle
    /\ ServerIdle
    /\ ExecIdle
    /\ SyncIdle
    /\ localFiles = <<>>
    /\ localHashes = <<>>
    /\ remoteFiles = <<>>
    /\ deleteRemote \in BOOLEAN
    /\ engine = "flatten"
    /\ plan = EmptyPlan
    /\ options \in CmdOptions
    /\ config = None
    /\ reply = None
    /\ exitCode = None
    /\ output = <<>>
    /\ uploadResults = <<>>
    /\ work = [scans |-> 0, hashes |-> 0, lists |-> 0]

NextCmd ==
    \/ \E file \in ConfigFiles : CmdLoadConfig(file)
    \/ \E o \in ScanOutcomes : CmdScanned(o)
    \/ \E o \in HashOutcomes : CmdHashed(o)
    \/ \E o \in ListOutcomes : CmdListed(o)
    \/ \E typed \in Replies : CmdAnswered(typed)
    \/ ExecuteUploads
    \/ \E i \in 1..Len(actions) : \E o \in CmdUploadOutcomes : UploadResponds(i, o)
    \/ \E i \in 1..Len(actions) : BackoffElapses(i)
    \/ ExecuteDeletes
    \/ \E i \in 1..Len(actions) : \E o \in DeleteOutcomes : DeleteResponds(i, o)
    \/ ExecutorReturns
    \/ CmdUploadsReturned
    \/ CmdDeletesReturned
    \/ CmdSignal

SpecCmd == InitCmd /\ [][NextCmd]_vars

----------------------------------------------------------------------------
(* The start of the sync command over more flags and configuration files:  *)
(* steps 1 to 3, up to the return of scanFiles                             *)

\* --concurrency: not given, or given with 'abc' or 0, 1 or 4
OptionFlags == {None, Some(0), Some(1), Some(4)}

\* the configuration files of ConfigFiles, and files that set sync.concurrency
OptionConfigFiles ==
    ConfigFiles \cup { ConfigFile(TRUE, TRUE, "map", TRUE, 1, 2),
                       ConfigFile(TRUE, TRUE, "map", TRUE, 1, 16) }

InitOptions ==
    /\ pc = "start"
    /\ GracefulIdle
    /\ HashIdle
    /\ ServerIdle
    /\ ExecIdle
    /\ SyncIdle
    /\ localFiles = <<>>
    /\ localHashes = <<>>
    /\ remoteFiles = <<>>
    /\ deleteRemote \in BOOLEAN
    /\ engine = "flatten"
    /\ plan = EmptyPlan
    /\ options \in [yes : BOOLEAN, dryRun : BOOLEAN, concurrency : OptionFlags]
    /\ config = None
    /\ reply = None
    /\ exitCode = None
    /\ output = <<>>
    /\ uploadResults = <<>>
    /\ work = [scans |-> 0, hashes |-> 0, lists |-> 0]

NextOptions ==
    \/ \E file \in OptionConfigFiles : CmdLoadConfig(file)
    \/ \E o \in ScanOutcomes : CmdScanned(o)

SpecOptions == InitOptions /\ [][NextOptions]_vars


----------------------------------------------------------------------------
(* The API server: the stores routes and store protection.  A store name   *)
(* is a sequence of tokens: the prefix "fileSearchStores/", an ID, a blank; *)
(* PROTECTED_STORES holds such names separated by the token ",".           *)

MaxRequests == 2

StorePrefix == "fileSearchStores/"

RECURSIVE split(_, _)
\* text.split(','), `entry` being the part read since the last separator
split(text, entry) ==
    IF text = <<>> THEN <<entry>>
    ELSE IF Head(text) = "," THEN <<entry>> \o split(Tail(text), <<>>)
    ELSE split(Tail(text), Append(entry, Head(text)))

\* s.trim()
trim(text) == trimEnd(trimStart(text))

\* s.replace(/^fileSearchStores\//, '')
stripPrefix(text) ==
    IF text # <<>> /\ Head(text) = StorePrefix THEN Tail(text) ELSE text

NonEmpty(text) == text # <<>>

\* getProtectedStoreIds: split, trim, normalise to the ID, drop the empty ones
getProtectedStoreIds(protectedStores) ==
    IF protectedStores = <<>> THEN <<>>
    ELSE LET entries == split(protectedStores, <<>>)
             ids == [k \in 1..Len(entries) |-> stripPrefix(trim(entries[k]))]
         IN  SelectSeq(ids, NonEmpty)

\* mutant: the name of the request is compared as it came
isProtectedStoreRaw(protectedStores, name) ==
    name \in Range(getProtectedStoreIds(protectedStores))

isProtectedStore(protectedStores, name) ==
    stripPrefix(name) \in Range(getProtectedStoreIds(protectedStores))

\* gemini.deleteStore: the store name it addresses
deleteStoreName(name) ==
    IF name # <<>> /\ Head(name) = StorePrefix THEN name ELSE <<StorePrefix>> \o name

\* the values of PROTECTED_STORES: unset, one store, two stores, with and
\* without the prefix, blanks, and an empty entry
ProtectedStoresSettings ==
    { <<>>,
      <<"alpha">>,
      <<StorePrefix, "alpha">>,
      <<" ", "alpha", " ", ",", StorePrefix, "beta">>,
      <<"beta", ",", ",", " ", StorePrefix, "alpha">> }

\* the store names of the DELETE requests
RequestedStores ==
    { <<"alpha">>, <<StorePrefix, "alpha">>, <<"beta">>, <<StorePrefix, "beta">>,
      <<"gamma">>, <<StorePrefix, "gamma">> }

\* the answers of the remote service to the DELETE of a store
StoreAnswers ==
    { [status |-> 200, message |-> <<>>],
      [status |-> 400, message |-> <<"Cannot delete non-empty store">>] }

\* router.delete('/:name') of the stores routes, the remote service giving
\* `answer` if it is asked
DeleteStoreRequest(name, force, answer) ==
    /\ pc = "serve"
    /\ Len(responses) < MaxRequests
    /\ IF isProtectedStore(env, name)
       THEN /\ responses' = Append(responses,
                   [name |-> name, remote |-> 0, status |-> 403,
                    message |-> <<"This store is protected and cannot be deleted">>])
            /\ UNCHANGED geminiCalls
       ELSE LET thrown == fetchApi(answer)
            IN  /\ geminiCalls' = Append(geminiCalls,
                       [name |-> deleteStoreName(name), force |-> force])
                /\ responses' = Append(responses,
                       [name |-> name, remote |-> answer.status,
                        status |-> IF thrown = None THEN 204 ELSE 500,
                        message |-> IF thrown = None THEN <<>> ELSE thrown[1]])
    /\ UNCHANGED <<pc, planVars, execVars, syncVars, cmdVars, gracefulVars, hashVars, env, requests>>

InitStores ==
    /\ pc = "serve"
    /\ PlanIdle
    /\ ExecIdle
    /\ SyncIdle
    /\ CmdIdle
    /\ GracefulIdle
    /\ HashIdle
    /\ env \in ProtectedStoresSettings
    /\ requests = <<>>
    /\ responses = <<>>
    /\ geminiCalls = <<>>

NextStores ==
    \E name \in RequestedStores : \E force \in BOOLEAN : \E answer \in StoreAnswers :
        DeleteStoreRequest(name, force, answer)

SpecStores == InitStores /\ [][NextStores]_vars

----------------------------------------------------------------------------
(* The API server: upload requests handled concurrently.  gemini.uploadFile *)
(* awaits the listing, the deletes of the duplicates and the import one     *)
(* after the other; the requests interleave at these awaits.                *)

MaxServed == 2

UploadNames == { <<"a.txt">>, <<"c.txt">> }

\* no two documents declare the same original file name
UniqueNames(docs) ==
    \A j \in 1..Len(docs) : \A k \in 1..Len(docs) :
        (j # k /\ TruthyName(docs[j].originalFileName))
            => docs[j].originalFileName # docs[k].originalFileName

IsDuplicateOf(doc, displayName) == doc.originalFileName = displayName

RECURSIVE DuplicatesOf(_, _)
\* existingFiles.filter((f) => f.originalDisplayName === displayName), by name
DuplicatesOf(docs, displayName) ==
    IF docs = <<>> THEN <<>>
    ELSE (IF IsDuplicateOf(Head(docs), displayName) THEN <<Head(docs).name>> ELSE <<>>)
         \o DuplicatesOf(Tail(docs), displayName)

RECURSIVE DeleteAll(_, _)
\* Promise.all(duplicates.map((f) => deleteFile(storeName, f.name))): the
\* store once every delete was answered, and the first error thrown, if any
DeleteAll(st, names) ==
    IF names = <<>> THEN [store |-> st, thrown |-> None]
    ELSE LET answer == RemoteDeletes(st, Head(names))
             rest == DeleteAll(answer.store, Tail(names))
         IN  [store |-> rest.store,
              thrown |-> IF fetchApi(answer) # None THEN fetchApi(answer) ELSE rest.thrown]

Served(r, st) == [requests EXCEPT ![r].st = st]

\* the upload route answers request r
UploadAnswered(r, status, message) ==
    responses' = Append(responses,
        [name |-> requests[r].displayName, remote |-> 0, status |-> status,
         message |-> message])

\* step 0 of gemini.uploadFile: listFiles resolves (with [] when the listing
\* failed) and the duplicates are picked
UploadLists(r, outcome) ==
    /\ pc = "upload"
    /\ requests[r].st = "list"
    /\ LET existingFiles == IF outcome = "ok" THEN store.docs ELSE <<>>
           duplicates == DuplicatesOf(existingFiles, requests[r].displayName)
       IN  requests' = [requests EXCEPT
                           ![r].st = IF duplicates = <<>> THEN "import" ELSE "delete",
                           ![r].listed = outcome,
                           ![r].held = store.docs,
                           ![r].duplicates = duplicates]
    /\ UNCHANGED <<pc, planVars, execVars, syncVars, cmdVars, gracefulVars, hashVars, env,
                   responses, geminiCalls>>

\* step 0 of gemini.uploadFile: the deletes of the duplicates are answered;
\* a delete that throws fails the upload, which the route answers with 500
UploadDeletesDuplicates(r) ==
    /\ pc = "upload"
    /\ requests[r].st = "delete"
    /\ LET deleted == DeleteAll(store, requests[r].duplicates)
       IN  /\ store' = deleted.store
           /\ IF deleted.thrown = None
              THEN requests' = Served(r, "import") /\ UNCHANGED responses
              ELSE requests' = Served(r, "failed")
                   /\ UploadAnswered(r, 500, deleted.thrown[1])
    /\ UNCHANGED <<pc, planVars, execVars, localContent, run, left, cmdVars,
                   gracefulVars, hashVars, env, geminiCalls>>

\* steps 1 to 3 of gemini.uploadFile: the file is sent and imported into the
\* store with its metadata, or one of the steps fails
UploadImports(r, outcome) ==
    /\ pc = "upload"
    /\ requests[r].st = "import"
    /\ IF outcome = "ok"
       THEN /\ store' = [docs |-> Append(store.docs,
                              StoreDoc(store.next, requests[r].displayName,
                                       requests[r].displayName,
                                       Sha256(requests[r].content))),
                         next |-> store.next + 1]
            /\ requests' = Served(r, "done")
            /\ UploadAnswered(r, 202, <<>>)
       ELSE /\ requests' = Served(r, "failed")
            /\ UploadAnswered(r, 500, <<"Import failed">>)
            /\ UNCHANGED store
    /\ UNCHANGED <<pc, planVars, execVars, localContent, run, left, cmdVars,
                   gracefulVars, hashVars, env, geminiCalls>>

\* the stores the uploads are sent to: no name is held twice
UploadStores ==
    {st \in {[docs |-> [k \in 1..Len(t) |-> StoreDoc(k, t[k], t[k], "hashX")],
              next |-> Len(t) + 1] : t \in SeqsUpTo(UploadNames, MaxStoreDocs)} :
        UniqueNames(st.docs)}

\* the upload requests under way: the name and the content of each file;
\* held keeps the documents the store held when the call listed it
UploadRequests ==
    {[r \in 1..Len(t) |->
         [displayName |-> t[r][1], content |-> t[r][2], st |-> "list",
          listed |-> "no", held |-> <<>>, duplicates |-> <<>>]] :
        t \in SeqsUpTo(UploadNames \X Contents, MaxServed) \ {<<>>}}

InitUploads ==
    /\ pc = "upload"
    /\ PlanIdle
    /\ ExecIdle
    /\ CmdIdle
    /\ GracefulIdle
    /\ HashIdle
    /\ localContent = <<>>
    /\ run = 0
    /\ left = [uploads |-> {}, deletes |-> {}]
    /\ store \in UploadStores
    /\ env = <<>>
    /\ requests \in UploadRequests
    /\ responses = <<>>
    /\ geminiCalls = <<>>

NextUploads ==
    \/ \E r \in 1..Len(requests) : \E outcome \in {"ok", "error"} : UploadLists(r, outcome)
    \/ \E r \in 1..Len(requests) : UploadDeletesDuplicates(r)
    \/ \E r \in 1..Len(requests) : \E outcome \in {"ok", "error"} : UploadImports(r, outcome)

SpecUploads == InitUploads /\ [][NextUploads]_vars

----------------------------------------------------------------------------
(* hasher: computeSha256 reads a file chunk by chunk through a stream and    *)
(* computeHashes calls it for one file after the other.  A file's content is *)
(* the sequence of the chunks its stream emits; a digest is told by the      *)
(* chunks that were given to hash.update.                                    *)

MaxChunks == 2

MaxHashed == 2

\* hash.digest('hex') after the chunks were given to hash.update
Digest(chunks) == <<"sha256">> \o chunks

Resolved(path, digest) == [path |-> path, kind |-> "resolve", value |-> digest]

Rejected(path, message) == [path |-> path, kind |-> "reject", value |-> message]

\* fs.createReadStream(filePath), and the abort listener added to the signal
createReadStream(path) == [path |-> path, st |-> "open", fed |-> <<>>, listening |-> TRUE]

\* mutant: at the signal the digest of what was read so far is given
abortHandlerDigests(r) ==
    [reading |-> [r EXCEPT !.st = "destroyed", !.listening = FALSE],
     outcome |-> Resolved(r.path, Digest(r.fed))]

\* abortHandler: stream.destroy(); reject(new Error('Aborted'))
abortHandler(r) ==
    [reading |-> [r EXCEPT !.st = "destroyed", !.listening = FALSE],
     outcome |-> Rejected(r.path, <<"Aborted">>)]

\* computeSha256 up to the return of its promise: rejected at once when the
\* signal is set, or pending on the stream it opened
computeSha256(path, r) ==
    IF aborted
    THEN [reading |-> r, outcome |-> Some(Rejected(path, <<"Aborted">>))]
    ELSE [reading |-> createReadStream(path), outcome |-> None]

\* the for loop of computeHashes from its test of the signal up to the next
\* await, or to its return: hashes is the map so far, r the last stream
HashesLoop(hashes, r) ==
    LET k == Cardinality(DOMAIN hashes) + 1 IN
    IF k > Len(localFiles) \/ aborted
    THEN [pc |-> "returned", hashes |-> hashes, reading |-> r, outcome |-> None]
    ELSE LET called == computeSha256(localFiles[k].absolutePath, r)
         IN  [pc |-> IF called.outcome = None THEN "hashing" ELSE "rejected",
              hashes |-> hashes, reading |-> called.reading, outcome |-> called.outcome]

\* the promise of computeSha256 is settled and its caller goes on: computeHashes
\* sets the entry and loops, or rejects; a direct caller has its answer
Settles(r, outcome) ==
    /\ settled' = Append(settled, outcome)
    /\ IF pc = "hashing" /\ outcome.kind = "resolve"
       THEN LET went == HashesLoop((outcome.path :> outcome.value) @@ localHashes, r)
            IN  /\ pc' = went.pc
                /\ localHashes' = went.hashes
                /\ reading' = went.reading
       ELSE /\ pc' = IF outcome.kind = "resolve" THEN "returned" ELSE "rejected"
            /\ reading' = r
            /\ UNCHANGED localHashes

\* computeHashes(files, signal) is called
ComputeHashesCalled ==
    /\ pc = "hashes"
    /\ LET went == HashesLoop(localHashes, reading)
       IN  /\ pc' = went.pc
           /\ reading' = went.reading
           /\ settled' = IF went.outcome = None THEN settled
                          ELSE Append(settled, went.outcome[1])
    /\ UNCHANGED <<localFiles, localHashes, remoteFiles, deleteRemote, engine, plan,
                   execVars, syncVars, cmdVars, gracefulVars, serverVars>>

\* computeSha256(filePath, signal) is called on its own
ComputeSha256Called ==
    /\ pc = "sha256"
    /\ LET called == computeSha256(localFiles[1].absolutePath, reading)
       IN  /\ reading' = called.reading
           /\ pc' = IF called.outcome = None THEN "digesting" ELSE "rejected"
           /\ settled' = IF called.outcome = None THEN settled
                          ELSE Append(settled, called.outcome[1])
    /\ UNCHANGED <<planVars, execVars, syncVars, cmdVars, gracefulVars, serverVars>>

\* stream.on('data'): the next chunk of the file is given to hash.update
StreamData ==
    /\ pc \in {"hashing", "digesting"}
    /\ reading.st = "open"
    /\ Len(reading.fed) < Len(localContent[reading.path])
    /\ reading' = [reading EXCEPT
                      !.fed = Append(@, localContent[reading.path][Len(@) + 1])]
    /\ UNCHANGED <<pc, planVars, execVars, syncVars, cmdVars, gracefulVars, serverVars,
                   settled>>

\* stream.on('end'): the listener is removed and the digest resolves the promise
StreamEnd ==
    /\ pc \in {"hashing", "digesting"}
    /\ reading.st = "open"
    /\ Len(reading.fed) = Len(localContent[reading.path])
    /\ Settles([reading EXCEPT !.st = "ended", !.listening = FALSE],
               Resolved(reading.path, Digest(reading.fed)))
    /\ UNCHANGED <<localFiles, remoteFiles, deleteRemote, engine, plan,
                   execVars, syncVars, cmdVars, gracefulVars, serverVars>>

\* stream.on('error'): the listener is removed and the error rejects the promise
StreamError ==
    /\ pc \in {"hashing", "digesting"}
    /\ reading.st = "open"
    /\ Settles([reading EXCEPT !.st = "errored", !.listening = FALSE],
               Rejected(reading.path, <<"EIO: i/o error">>))
    /\ UNCHANGED <<localFiles, remoteFiles, deleteRemote, engine, plan,
                   execVars, syncVars, cmdVars, gracefulVars, serverVars>>

\* the first SIGINT / SIGTERM: the signal is aborted, and the abort listener
\* of the stream that is being read runs
HashSignal ==
    /\ pc \in {"hashes", "sha256", "hashing", "digesting"}
    /\ ~isShuttingDown
    /\ handler
    /\ IF reading.listening
       THEN Settles(abortHandler(reading).reading, abortHandler(reading).outcome)
       ELSE UNCHANGED <<pc, localHashes, reading, settled>>
    /\ UNCHANGED <<localFiles, remoteFiles, deleteRemote, engine, plan, batch, actions,
                   concurrency, maxRetries, task, pending, active, results, progress,
                   calls, delays, answers, syncVars, cmdVars, serverVars>>

HashPaths == << <<"a.txt">>, <<"b.txt">>, <<"d", "/", "a.txt">> >>

\* the files given to the hasher, in the order of HashPaths
HashLists ==
    {t \in SeqsUpTo(1..Len(HashPaths), MaxHashed) \ {<<>>} :
        \A i \in 1..Len(t) : \A j \in 1..Len(t) : i < j => t[i] < t[j]}

\* what the files hold: up to MaxChunks chunks each, an empty file has none
FileChunks == SeqsUpTo(Contents, MaxChunks)

InitHash ==
    /\ pc \in {"hashes", "sha256"}
    /\ GracefulIdle
    /\ HashIdle
    /\ ServerIdle
    /\ ExecIdle
    /\ CmdIdle
    /\ \E t \in HashLists :
          /\ localFiles = [i \in 1..Len(t) |-> LocalFile(HashPaths[t[i]])]
          /\ localContent \in [{absolutePathOf(HashPaths[t[i]]) : i \in 1..Len(t)}
                                  -> FileChunks]
    /\ localHashes = <<>>
    /\ remoteFiles = <<>>
    /\ deleteRemote = FALSE
    /\ engine = "none"
    /\ plan = EmptyPlan
    /\ store = [docs |-> <<>>, next |-> 1]
    /\ run = 0
    /\ left = [uploads |-> {}, deletes |-> {}]

NextHash ==
    \/ ComputeHashesCalled
    \/ ComputeSha256Called
    \/ StreamData
    \/ StreamEnd
    \/ StreamError
    \/ HashSignal

SpecHash == InitHash /\ [][NextHash]_vars

----------------------------------------------------------------------------
(* Claims about the planner, under SpecPlan *)

Planned == pc = "planned"

KeyOf(relativePath) == IdentityKey(engine, relativePath)

\* how many actions of the collection s carry the local file
WithLocal(s, local) == Cardinality({i \in 1..Len(s) : s[i].localFile = Some(local)})

\* how many actions of the collection s carry the remote file
WithRemote(s, remote) == Cardinality({i \in 1..Len(s) : s[i].remoteFile = Some(remote)})

ActionsFor(local) ==
    WithLocal(plan.uploads, local) + WithLocal(plan.skips, local)
    + WithLocal(plan.deletes, local)

\* C1: in the plan buildSyncPlan returns, each local file is the localFile of
\* exactly one action, that action is in uploads or skips and never in deletes,
\* and no action is in more than one of the three collections.
C1_Partition ==
    Planned =>
        /\ \A i \in 1..Len(localFiles) :
              /\ ActionsFor(localFiles[i]) = 1
              /\ WithLocal(plan.deletes, localFiles[i]) = 0
        /\ Range(plan.uploads) \cap Range(plan.skips) = {}
        /\ Range(plan.uploads) \cap Range(plan.deletes) = {}
        /\ Range(plan.skips) \cap Range(plan.deletes) = {}

\* two local files with one identity key and a remote entry of that key: the
\* first is matched, the second is not, and both are planned once
C1_Witness ==
    /\ Planned
    /\ Len(localFiles) = 2
    /\ engine = "flatten"
    /\ KeyOf(localFiles[1].relativePath) = KeyOf(localFiles[2].relativePath)
    /\ Len(plan.skips) = 1
    /\ Len(plan.uploads) = 1
    /\ Len(plan.deletes) = 1

Unmatched(remote) ==
    \A i \in 1..Len(localFiles) :
        remote.originalFileName # KeyOf(localFiles[i].relativePath)

\* C2: with delete mode enabled every remote file of the listing whose original
\* identity matches no local identity key is the remoteFile of exactly one
\* delete action, also when entries share an identity or have an empty one;
\* with delete mode disabled the deletes collection is empty.
C2_OrphansDeleted ==
    Planned =>
        IF deleteRemote
        THEN \A j \in 1..Len(remoteFiles) :
                Unmatched(remoteFiles[j]) =>
                    WithRemote(plan.deletes, remoteFiles[j]) = 1
        ELSE plan.deletes = <<>>

LocalHashOf(a) == HashOf(localHashes, a.localFile[1].absolutePath)

MatchedActions ==
    {a \in Range(plan.uploads) \cup Range(plan.skips) : a.remoteFile # None}

\* C4: a local file matched to a remote entry whose declared digest equals the
\* local digest is classified skip with reason "unchanged", whatever its name
\* or size.
C4_EqualHashSkips ==
    Planned =>
        \A a \in MatchedActions :
            (TruthyHash(LocalHashOf(a)) /\ LocalHashOf(a) = a.remoteFile[1].sha256)
                => /\ a \in Range(plan.skips)
                   /\ a.type = "skip"
                   /\ a.reason = "unchanged"

\* a nested file (size 3) and a flat one (size 1), both with the digest of
\* their remote entries
C4_Witness ==
    /\ Planned
    /\ Len(plan.skips) = 2
    /\ \A i \in 1..2 :
          /\ TruthyHash(LocalHashOf(plan.skips[i]))
          /\ LocalHashOf(plan.skips[i]) = plan.skips[i].remoteFile[1].sha256
    /\ plan.skips[1].localFile[1].size # plan.skips[2].localFile[1].size

\* C5: a local file matched to a remote entry that declares no digest is
\* classified upload with reason "missing remote hash", whatever the local
\* digest is and also when the local digest is absent.
C5_LegacyReuploads ==
    Planned =>
        \A a \in MatchedActions :
            ~TruthyHash(a.remoteFile[1].sha256)
                => /\ a \in Range(plan.uploads)
                   /\ a.type = "upload"
                   /\ a.reason = "missing remote hash"

\* two matched legacy entries, one local digest present and one absent
C5_Witness ==
    /\ Planned
    /\ Len(plan.uploads) = 2
    /\ \A i \in 1..2 :
          /\ plan.uploads[i].remoteFile # None
          /\ ~TruthyHash(plan.uploads[i].remoteFile[1].sha256)
    /\ TruthyHash(LocalHashOf(plan.uploads[1]))
    /\ ~TruthyHash(LocalHashOf(plan.uploads[2]))

ExampleLocal == <<LocalFile(<<"a.txt">>), LocalFile(<<"b.txt">>)>>

ExampleHashes ==
    (absolutePathOf(<<"a.txt">>) :> "hashX") @@ (absolutePathOf(<<"b.txt">>) :> "hashY")

ExampleRemote == <<RemoteFile(1, <<"a.txt">>, "hashX"), RemoteFile(2, <<"c.txt">>, "hashZ")>>

IsExample ==
    /\ Planned
    /\ localFiles = ExampleLocal
    /\ localHashes = ExampleHashes
    /\ remoteFiles = ExampleRemote
    /\ deleteRemote

ExamplePlan(deleteReason) ==
    [uploads |-> <<[type |-> "upload", localFile |-> Some(ExampleLocal[2]),
                    remoteFile |-> None, reason |-> "new file"]>>,
     skips |-> <<[type |-> "skip", localFile |-> Some(ExampleLocal[1]),
                  remoteFile |-> Some(ExampleRemote[1]), reason |-> "unchanged"]>>,
     deletes |-> <<[type |-> "delete", localFile |-> None,
                    remoteFile |-> Some(ExampleRemote[2]), reason |-> deleteReason]>>]

----------------------------------------------------------------------------
(* Claims about the executor, under SpecExec *)

Uploading == batch = "uploads"

ActionIndex(a) == CHOOSE i \in 1..Len(actions) : actions[i] = a

ResultsOf(i) == {k \in 1..Len(results) : results[k].action = actions[i]}

IsClientResult(r) == r.error # None /\ IsClientError(r.error[1])

\* the uploadFile calls of action i that failed with a retryable error, given
\* its result r: every call but a last one that succeeded or was a client error
TransientFailures(i, r) ==
    IF r.success \/ IsClientResult(r) THEN calls[i] - 1 ELSE calls[i]

\* the results C7 is about: uploads without cancellation and without a
\* client error, under a retry budget of at least 1
RetryResults ==
    IF Uploading /\ ~aborted /\ maxRetries >= 1
    THEN {k \in 1..Len(results) : ~IsClientResult(results[k])}
    ELSE {}

NotStarted(i) == task[i].st \in {"new", "queued"}

\* action i ended without a remote call, with one result, which is cancelled
CancelledUnstarted(i) ==
    /\ task[i].st = "done"
    /\ calls[i] = 0
    /\ Cardinality(ResultsOf(i)) = 1
    /\ \A k \in ResultsOf(i) : results[k].cancelled /\ ~results[k].success

\* C8: once the cancellation signal is set, every upload action that had not
\* started is recorded with cancelled = true and success = false, never as a
\* plain failure, and no uploadFile call is made for it; the batch yields T
\* results.
C8_CancelMidBatch ==
    /\ [][\A i \in 1..Len(actions) :
            (Uploading /\ aborted /\ NotStarted(i))
                => (NotStarted(i)' \/ CancelledUnstarted(i)')]_vars
    /\ [](\A i \in 1..Len(actions) :
            (Uploading /\ task[i].st = "done" /\ calls[i] = 0) => CancelledUnstarted(i))
    /\ []((Uploading /\ pc = "returned") =>
            /\ Len(results) = Len(actions)
            /\ \A i \in 1..Len(actions) : task[i].st = "done")

\* the signal was set after 1 of 2 uploads had started: the first made its
\* call, the second is recorded cancelled
C8_Witness ==
    /\ Uploading
    /\ pc = "returned"
    /\ aborted
    /\ Len(actions) = 2
    /\ calls[1] >= 1
    /\ CancelledUnstarted(2)
    /\ Len(results) = 2

Running == {i \in 1..Len(actions) : task[i].st \in {"call", "sleep"}}

C9_WitnessDeletes ==
    /\ batch = "deletes"
    /\ concurrency = 2
    /\ pending # <<>>
    /\ Cardinality(Running) = 2

----------------------------------------------------------------------------
(* Claims about two sync runs in a row, under SpecSync *)

Replanned == pc = "replanned"

AllSkips ==
    /\ plan.uploads = <<>>
    /\ plan.deletes = <<>>
    /\ Len(plan.skips) = Len(localFiles)

\* C3: after a sync run whose uploads and deletes all succeeded, a second run
\* with no local or remote change in between plans zero uploads, zero deletes
\* and one skip per local file, for flat and for nested relative paths.
C3_Idempotence ==
    Replanned => AllSkips

IsFlat(relativePath) == \A k \in 1..Len(relativePath) : relativePath[k] # "/"

\* the second run's plan is all skips when every local path is flat
C3_IdempotenceFlat ==
    (Replanned /\ \A k \in 1..Len(localFiles) : IsFlat(localFiles[k].relativePath))
        => AllSkips

----------------------------------------------------------------------------
(* Further claims about the executor, under SpecExec *)

\* the HTTP status of the answer that left the error message m
StatusOfMessage(m) == (CHOOSE o \in UploadOutcomes : o.message = m).status

ClientStatuses == {400, 403}

\* the call of upload action i gets a failed answer in this step, the signal
\* not being set
FailedAnswer(i) ==
    /\ Uploading
    /\ ~aborted
    /\ task[i].st = "call"
    /\ task'[i] # task[i]
    /\ task'[i].lastError # None

\* action i has ended with a failed result and made no further call
FailsAtOnce(i) ==
    /\ task'[i].st = "done"
    /\ calls'[i] = calls[i]
    /\ \E k \in 1..Len(results') :
          /\ results'[k].action = actions[i]
          /\ ~results'[k].success
          /\ ~results'[k].cancelled

\* the failed attempt used one attempt of the budget: action i waits for its
\* retry if budget remains, and has failed if none does
ConsumesAttempt(i) ==
    IF task[i].attempt < maxRetries
    THEN /\ task'[i].st = "sleep"
         /\ task'[i].attempt = task[i].attempt + 1
         /\ Len(results') = Len(results)
    ELSE FailsAtOnce(i)

\* C11: when an upload attempt returns a client-side error (HTTP 400 or 403)
\* the action fails at once with no further uploadFile call, whatever budget
\* remains; every other failed attempt (error result or thrown error) consumes
\* exactly one attempt of the budget and is retried while budget remains.
C11_ClientErrorsFinal ==
    [][\A i \in 1..Len(actions) :
          FailedAnswer(i) =>
              IF StatusOfMessage(task'[i].lastError[1]) \in ClientStatuses
              THEN FailsAtOnce(i)
              ELSE ConsumesAttempt(i)]_vars

\* what the loop does: an error result whose message contains "400" or "403"
\* ends the action, every other failed attempt consumes one attempt
C11_ByMessage ==
    [][\A i \in 1..Len(actions) :
          FailedAnswer(i) =>
              IF /\ IsClientError(task'[i].lastError[1])
                 /\ StatusOfMessage(task'[i].lastError[1]) # 0
              THEN FailsAtOnce(i)
              ELSE ConsumesAttempt(i)]_vars

Deleting == batch = "deletes"

\* the result of delete action i says what its call got: success for a
\* return, a failure with the message for a throw
DeleteRecorded(i) ==
    /\ Cardinality(ResultsOf(i)) = 1
    /\ \A k \in ResultsOf(i) :
          /\ results[k].success = (task[i].lastError = None)
          /\ results[k].error = task[i].lastError

\* C12: when the cancellation signal is not set, every delete action that has a
\* remote file gets exactly one client.deleteFile call (no retry after a
\* failure), a failed delete is recorded as a failed result, and every other
\* delete action is still attempted and recorded.
C12_DeletePolicy ==
    Deleting =>
        /\ \A i \in 1..Len(actions) :
              /\ calls[i] <= 1
              /\ task[i].st = "done" => (calls[i] = 1 /\ DeleteRecorded(i))
        /\ (pc = "returned" /\ ~aborted) =>
              /\ Len(results) = Len(actions)
              /\ \A i \in 1..Len(actions) :
                    actions[i].remoteFile # None => (task[i].st = "done" /\ calls[i] = 1)

\* three deletes under width 1: the first failed, the two after it were
\* attempted, one failing and one succeeding
C12_Witness ==
    /\ Deleting
    /\ pc = "returned"
    /\ ~aborted
    /\ concurrency = 1
    /\ Len(results) = 3
    /\ ~results[1].success
    /\ ~results[2].success
    /\ results[3].success
    /\ \A i \in 1..3 : calls[i] = 1

----------------------------------------------------------------------------
(* Claims about a batch of uploads whose answers are kept, under SpecAnswers *)

RECURSIVE AloneResult(_, _, _, _)
\* the result uploadWithRetry gives action i when it runs on its own and its
\* calls get the answers `given` in order, from the attempt `attempt` on;
\* None while it waits for a further answer
AloneResult(i, given, attempt, lastError) ==
    IF attempt > maxRetries
    THEN Some(UploadResult(i, FALSE, lastError, maxRetries, FALSE))
    ELSE IF given = <<>> THEN None
    ELSE LET answer == Head(given) IN
         IF answer.kind = "ok"
         THEN Some(UploadResult(i, TRUE, None, attempt, FALSE))
         ELSE IF answer.kind = "error" /\ IsClientError(answer.message)
         THEN Some(UploadResult(i, FALSE, Some(answer.message), maxRetries, FALSE))
         ELSE AloneResult(i, Tail(given), attempt + 1, Some(answer.message))

\* C13: when the cancellation signal is never set, the result of each upload
\* action (success, error, retries) is a function only of the answers to that
\* action's own attempts, whatever the other actions of the batch do (so two
\* runs giving it the same answers give it the same result), and every action
\* of the batch is attempted at least once even if others fail.
C13_Independence ==
    /\ \A i \in 1..Len(actions) :
          /\ Cardinality(ResultsOf(i)) <= 1
          /\ {results[k] : k \in ResultsOf(i)} = Range(AloneResult(i, answers[i], 0, None))
          /\ Len(answers[i]) <= calls[i]
    /\ pc = "returned" =>
          \A i \in 1..Len(actions) :
              /\ calls[i] >= 1
              /\ Len(answers[i]) = calls[i]
              /\ Cardinality(ResultsOf(i)) = 1

\* width 1: the first action failed after its retries, the second was then
\* attempted and succeeded at its first call
C13_Witness ==
    /\ pc = "returned"
    /\ concurrency = 1
    /\ Len(actions) = 2
    /\ Len(answers[1]) = maxRetries + 1
    /\ \E k \in ResultsOf(1) : ~results[k].success
    /\ Len(answers[2]) = 1
    /\ \E k \in ResultsOf(2) : results[k].success /\ results[k].retries = 0

----------------------------------------------------------------------------
(* Claims about the sync command, under SpecCmd *)

Exited == pc = "exited"

HasPrinted(kind) == \E k \in 1..Len(output) : output[k].kind = kind

PrintedData(kind) == output[CHOOSE k \in 1..Len(output) : output[k].kind = kind].data

\* the run went through steps 12 and 13
Finished == Exited /\ HasPrinted("summary")

\* the results of executeDeletes, if it was called
DeleteResults == IF batch = "deletes" THEN results ELSE <<>>

\* a delete stopped by the signal: its fetch was aborted
StoppedDelete(r) == ~r.success /\ r.error = Some(<<"This operation was aborted">>)

\* an upload or delete that failed, and was not stopped by the signal
GenuineFailure(r) ==
    /\ ~r.success
    /\ IF r.action.type = "upload" THEN ~r.cancelled ELSE ~StoppedDelete(r)

GenuineFailures ==
    SelectSeq(uploadResults, GenuineFailure) \o SelectSeq(DeleteResults, GenuineFailure)

\* C14: an action (upload or delete) that was stopped or never started because
\* the cancellation signal was set is never reported as a failure: it is not
\* counted in the summary's failed counts, is not listed among the failed
\* actions, and does not make the run exit with the failure code 1.
C14_CancelledNotFailed ==
    Finished =>
        /\ PrintedData("summary").uploaded.failed + PrintedData("summary").deleted.failed
              = Len(GenuineFailures)
        /\ HasPrinted("failures") =>
              PrintedData("failures") =
                  [k \in 1..Len(GenuineFailures) |-> FailureLine(GenuineFailures[k])]
        /\ exitCode = Some(1) => GenuineFailures # <<>>

\* C15: whenever the user interrupts the run (the first SIGINT / SIGTERM sets
\* the cancellation signal) in any phase -- hashing, remote listing,
\* confirmation prompt, uploads or deletes -- the process exits with code 130.
C15_CancelExits130 ==
    (Exited /\ aborted) => exitCode = Some(130)

\* some upload or delete result is a failure
AnyFailure ==
    \/ \E k \in 1..Len(uploadResults) : ~uploadResults[k].success
    \/ \E k \in 1..Len(DeleteResults) : ~DeleteResults[k].success

\* C16: a run that is never interrupted and reaches the end of the execution
\* phase exits with code 1 if and only if at least one upload or delete result
\* is a failure, and with code 0 otherwise; a run whose plan has no uploads and
\* no deletes exits with code 0.
C16_ExitOnCompletion ==
    (Exited /\ ~aborted) =>
        /\ Finished => exitCode = Some(IF AnyFailure THEN 1 ELSE 0)
        /\ (HasPrinted("plan") /\ plan.uploads = <<>> /\ plan.deletes = <<>>)
              => exitCode = Some(0)

\* the upload succeeded and the delete failed: the run exits with 1
C16_Witness ==
    /\ Finished
    /\ ~aborted
    /\ Len(uploadResults) = 1
    /\ uploadResults[1].success
    /\ Len(DeleteResults) = 1
    /\ ~DeleteResults[1].success
    /\ exitCode = Some(1)

\* every transfer succeeded: the run exits with 0
C16_WitnessClean ==
    /\ Finished
    /\ ~aborted
    /\ Len(uploadResults) = 1
    /\ Len(DeleteResults) = 1
    /\ ~AnyFailure
    /\ exitCode = Some(0)

\* the run ended in loadConfig: scanFiles was never called
ConfigFailed == Exited /\ work.scans = 0

\* no file was scanned or hashed and no remote call was made
NoWork ==
    /\ work = [scans |-> 0, hashes |-> 0, lists |-> 0]
    /\ localFiles = <<>>
    /\ localHashes = <<>>
    /\ batch = "none"
    /\ calls = <<>>

\* C17: if loading the configuration fails (file missing, unreadable, invalid
\* YAML, missing store, or empty include list) the run exits with code 2 and
\* performs no file scan, no hashing and no remote call.
C17_ConfigErrorExits2 ==
    ConfigFailed => (exitCode = Some(2) /\ NoWork)

\* whatever loadConfig throws, no work is done; the exit code is 2 when it
\* throws a ConfigError
C17_ConfigErrorNoWork ==
    ConfigFailed =>
        /\ NoWork
        /\ HasPrinted("config error") => exitCode = Some(2)
        /\ HasPrinted("error") => exitCode = Some(1)

\* executeUploads or executeDeletes was called
ExecutionStarted == batch # "none"

\* the results that are failures, uploads first
FailedResults ==
    SelectSeq(uploadResults, UploadFailed) \o SelectSeq(DeleteResults, DeleteFailed)

\* the summary was printed with the counts of the results, and after it one
\* line, with identity and error message, for every failed action
SummaryThenFailures ==
    /\ HasPrinted("summary")
    /\ PrintedData("summary") = buildSummary(uploadResults, DeleteResults, Len(plan.skips))
    /\ FailedResults # <<>> =>
          /\ output[Len(output)].kind = "failures"
          /\ output[Len(output) - 1].kind = "summary"
          /\ output[Len(output)].data =
                [k \in 1..Len(FailedResults) |-> FailureLine(FailedResults[k])]

\* C18: in every run whose execution phase started (executeUploads or
\* executeDeletes was called), the summary with success / failure / cancelled
\* counts, followed by the list of every failed action with its identity and
\* error message, is printed before the process exits -- whether the run
\* completed, had failures, or was cancelled during the transfers.
C18_SummaryAlways ==
    (Exited /\ ExecutionStarted) => SummaryThenFailures

\* the summary and the failures are printed when the signal was not set by
\* the end of the uploads
C18_SummaryUnlessCancelled ==
    (Exited /\ ExecutionStarted /\ ~HasPrinted("cancelled by user")) => SummaryThenFailures

\* a client.uploadFile or client.deleteFile call has been made
Mutating == uploadResults # <<>> \/ \E i \in 1..Len(calls) : calls[i] > 0

\* the typed line is "yes", up to case and surrounding blanks
SaysYes(typed) == typed \in { <<"yes">>, <<" ", "YES", " ">> }

HasFailedWith(message) ==
    \E k \in 1..Len(output) : output[k] = Printed("error", message)

ScanFailed == HasFailedWith(<<"EACCES: permission denied">>)

HashFailed == HasFailedWith(<<"EIO: i/o error">>) \/ HasFailedWith(<<"Aborted">>)

ListFailed == HasFailedWith(<<"Failed to list files">>)

\* no upload and no delete was made or is under way
NoTransfer ==
    /\ batch = "none"
    /\ calls = <<>>
    /\ uploadResults = <<>>

\* C20: if scanning or hashing the local files fails, the run aborts without
\* making any remote call (list, upload or delete); if the initial remote
\* listing fails, the run aborts without any upload or delete.
C20_SetupFailuresAbort ==
    /\ (ScanFailed \/ HashFailed) => (Exited /\ work.lists = 0 /\ NoTransfer)
    /\ ListFailed => (Exited /\ NoTransfer)

\* a file was found and could not be read: the run ended without a listing
C20_Witness ==
    /\ HasFailedWith(<<"EIO: i/o error">>)
    /\ work.hashes >= 1
    /\ localFiles # <<>>
    /\ work.lists = 0
    /\ Exited

\* the listing failed after the files were hashed: the run ended
C20_WitnessList ==
    /\ ListFailed
    /\ work.hashes = 1
    /\ work.lists = 1
    /\ Exited

----------------------------------------------------------------------------
(* Claims about the cancellation signal, under SpecCmd *)

\* C21: the cancellation signal is set at most once per run and never
\* reverts: before any SIGINT / SIGTERM the signal is not set and 'shutdown'
\* was not emitted; from the first one on signal.aborted is true and
\* 'shutdown' has been emitted exactly once; a second one ends the process
\* (exit code 1) without setting the signal or emitting 'shutdown' again.
C21_SingleSignal ==
    /\ [](signals = 0 => (~aborted /\ ~isShuttingDown /\ shutdowns = 0))
    /\ [](signals >= 1 => (aborted /\ isShuttingDown /\ shutdowns = 1))
    /\ [](signals >= 2 => (pc = "killed" /\ exitCode = Some(1)))
    /\ [][aborted => (aborted' /\ shutdowns' = shutdowns)]_vars

\* a second interrupt arrived while the uploads were running
C21_Witness ==
    /\ signals = 2
    /\ pc = "killed"
    /\ batch = "uploads"
    /\ aborted
    /\ shutdowns = 1

----------------------------------------------------------------------------
(* Claims about deleting through the API server, under SpecSync *)

\* the delete results whose document the store no longer held
NotFoundDeletes == {k \in 1..Len(responses) : responses[k].remote = 404}

\* C22: a delete of a remote file that is already absent ("not found") is
\* treated as success: the delete action is recorded with success = true.
C22_NotFoundIsSuccess ==
    \A k \in NotFoundDeletes : results[k].success

\* a delete of a document the store holds is recorded as a success and the
\* document is gone
C22_FoundIsSuccess ==
    \A k \in 1..Len(responses) :
        responses[k].remote = 200 =>
            /\ results[k].success
            /\ ~HasDoc(store.docs, results[k].action.remoteFile[1].name)

----------------------------------------------------------------------------
(* Claims about connection failures, under SpecExec *)

ConnectionError == <<"fetch failed">>

\* an upload attempt of action i has failed because the remote was unreachable
Unreachable(i) == task[i].lastError = Some(ConnectionError)

\* C23: once an upload attempt has failed with a connection error, the
\* remaining actions are short-circuited: no further client.uploadFile call
\* begins, neither for an action still queued nor as a retry.
C23_ConnectionShortCircuit ==
    [][(Uploading /\ \E i \in 1..Len(actions) : Unreachable(i)) =>
          \A j \in 1..Len(actions) : calls'[j] = calls[j]]_vars

----------------------------------------------------------------------------
(* Claims about the progress callback, under SpecExec *)

\* how many entries of the collection s are about action i
EntriesOf(s, i) == Cardinality({k \in 1..Len(s) : s[k].action = actions[i]})

\* C24: executeUploads invokes the progress callback exactly once for every
\* upload action that has ended with a result (success, failure or
\* cancelled), with that result, and never for an action without a result.
C24_ProgressOncePerResult ==
    Uploading =>
        /\ \A i \in 1..Len(actions) : EntriesOf(progress, i) = EntriesOf(results, i)
        /\ \A k \in 1..Len(progress) : progress[k] \in Range(results)

\* the callback is given every result in the order of the results, except
\* when the signal was set before executeUploads was called: then every
\* action is recorded as cancelled and the callback is never invoked
C24_ProgressUnlessCancelledAtEntry ==
    Uploading =>
        \/ progress = results
        \/ /\ progress = <<>>
           /\ \A k \in 1..Len(results) : results[k].cancelled /\ results[k].retries = 0
           /\ \A i \in 1..Len(actions) : calls[i] = 0

----------------------------------------------------------------------------
(* Claims about store protection, under SpecStores *)

\* the ID a store name stands for, bare or prefixed
StoreIdOf(name) == name[Len(name)]

\* the IDs PROTECTED_STORES lists, bare or prefixed
ListedIds == Range(env) \ {",", " ", StorePrefix}

Listed(name) == StoreIdOf(name) \in ListedIds

RequestNotListed(response) == ~Listed(response.name)

\* C25: a DELETE request for a store whose ID is listed in PROTECTED_STORES,
\* bare or as 'fileSearchStores/<ID>' in the list or in the request, is
\* answered 403 and gemini.deleteStore is not called for it; a request for a
\* store that is not listed goes on to gemini.deleteStore.
C25_StoreProtection ==
    pc = "serve" =>
        /\ \A k \in 1..Len(responses) :
               Listed(responses[k].name) <=> responses[k].status = 403
        /\ LET passed == SelectSeq(responses, RequestNotListed)
           IN  /\ Len(geminiCalls) = Len(passed)
               /\ \A k \in 1..Len(passed) :
                      /\ StoreIdOf(geminiCalls[k].name) = StoreIdOf(passed[k].name)
                      /\ passed[k].status \in {204, 500}

\* a store listed by its bare ID between blanks is asked for with the prefix
\* and refused, after a store that is not listed was deleted
C25_Witness ==
    /\ pc = "serve"
    /\ env = <<" ", "alpha", " ", ",", StorePrefix, "beta">>
    /\ Len(responses) = 2
    /\ responses[1].name = <<"gamma">>
    /\ responses[1].status = 204
    /\ responses[2].name = <<StorePrefix, "alpha">>
    /\ responses[2].status = 403
    /\ Len(geminiCalls) = 1

\* a store listed with the prefix is asked for by its bare ID and refused
C25_WitnessPrefixed ==
    /\ pc = "serve"
    /\ env = <<StorePrefix, "alpha">>
    /\ Len(responses) = 1
    /\ responses[1].name = <<"alpha">>
    /\ responses[1].status = 403
    /\ geminiCalls = <<>>

----------------------------------------------------------------------------
(* Claims about cancellation in the executor, under SpecExec *)

\* C26: once the cancellation signal is set, no new client.uploadFile call
\* begins for any upload action; an action that is in a backoff sleep when
\* the signal is set makes no further attempt after the sleep.
C26_NoCallAfterCancel ==
    [][(Uploading /\ aborted) =>
          \A i \in 1..Len(actions) : calls'[i] = calls[i]]_vars

\* once the signal is set, no action makes its first attempt and none starts
\* a backoff sleep: only an action already asleep calls client.uploadFile
\* again, once, when its sleep is over
C26_OnlySleepersCallAfterCancel ==
    [][(Uploading /\ aborted) =>
          \A i \in 1..Len(actions) :
              /\ calls'[i] # calls[i] =>
                     (task[i].st = "sleep" /\ calls'[i] = calls[i] + 1)
              /\ task'[i].st = "sleep" => task[i].st = "sleep"]_vars

----------------------------------------------------------------------------
(* Claims about the completeness of the results, under SpecExec *)

Returned == pc = "returned"

\* C27: whatever the interleaving of the completions and the moment the
\* signal is set, executeUploads returns exactly one result per input action:
\* none missing, none duplicated.
C27_UploadResultsComplete ==
    Uploading =>
        /\ \A i \in 1..Len(actions) : EntriesOf(results, i) <= 1
        /\ Returned =>
               /\ Len(results) = Len(actions)
               /\ \A i \in 1..Len(actions) : EntriesOf(results, i) = 1

\* two uploads, the signal set while the first was retried: a failure of the
\* first and a cancelled second are returned, in the order they ended
C27_Witness ==
    /\ Uploading
    /\ Returned
    /\ aborted
    /\ Len(actions) = 2
    /\ calls[1] >= 2
    /\ \E k \in 1..2 : results[k].cancelled /\ results[k].action = actions[2]
    /\ \E k \in 1..2 : ~results[k].cancelled /\ results[k].action = actions[1]

\* the signal was set before executeUploads was called
C27_WitnessAtEntry ==
    /\ Uploading
    /\ Returned
    /\ Len(actions) = 2
    /\ \A i \in 1..2 : calls[i] = 0
    /\ \A k \in 1..2 : results[k].cancelled


\* C28: executeDeletes returns exactly one result for every delete action it
\* was given, also when the signal is set before or during the batch.
C28_DeleteResultsComplete ==
    (Deleting /\ Returned) =>
        /\ Len(results) = Len(actions)
        /\ \A i \in 1..Len(actions) : EntriesOf(results, i) = 1

\* executeDeletes returns one result per action unless the signal was set
\* before it was called: then it returns no result at all
C28_CompleteUnlessCancelledAtEntry ==
    (Deleting /\ Returned) =>
        \/ /\ Len(results) = Len(actions)
           /\ \A i \in 1..Len(actions) : EntriesOf(results, i) = 1
        \/ /\ results = <<>>
           /\ aborted
           /\ \A i \in 1..Len(actions) : calls[i] = 0

\* in the sync command the signal is tested right before executeDeletes is
\* called: the delete results are as many as the planned deletes
C28_CommandDeletesComplete ==
    (Deleting /\ Returned) => Len(results) = Len(plan.deletes)

----------------------------------------------------------------------------
(* Claims about skipped files, under SpecPlan *)

Hashed(local) == local.absolutePath \in DOMAIN localHashes

\* the skip action has a remote file whose declared hash is present and equal
\* to the computed digest of its local file
SkipJustified(a) ==
    /\ a.localFile # None
    /\ a.remoteFile # None
    /\ Hashed(a.localFile[1])
    /\ TruthyHash(a.remoteFile[1].sha256)
    /\ a.remoteFile[1].sha256 = localHashes[a.localFile[1].absolutePath]

\* C29: every action in the plan's skips has a remote file whose declared
\* hash is present and equal to the local file's computed digest; a local
\* file for which the digest map holds no entry is never classified
\* "unchanged".
C29_SkipOnlyOnEqualHash ==
    Planned => \A k \in 1..Len(plan.skips) : SkipJustified(plan.skips[k])

\* when the digest map holds an entry for every local file, every skip is
\* justified by equal hashes
C29_SkipOnEqualWhenHashed ==
    (Planned /\ \A i \in 1..Len(localFiles) : Hashed(localFiles[i])) =>
        \A k \in 1..Len(plan.skips) : SkipJustified(plan.skips[k])

----------------------------------------------------------------------------
(* Claims about concurrent uploads to one store, under SpecUploads *)

AllServed == \A r \in 1..Len(requests) : requests[r].st \in {"done", "failed"}

\* C30: after any set of uploads to one store has completed, including
\* uploads that run concurrently and carry the same display name, the store
\* holds at most one document per originalFileName.
C30_UniqueNamesAfterUploads ==
    (pc = "upload" /\ AllServed) => UniqueNames(store.docs)

\* an upload handled alone, its listing succeeding, leaves no name twice
C30_UniqueWhenAlone ==
    (pc = "upload" /\ AllServed /\ Len(requests) = 1 /\ requests[1].listed = "ok")
        => UniqueNames(store.docs)

\* the documents the store held when request r listed it, and holds no more
Lost(r) ==
    {d \in Range(requests[r].held) : d \notin Range(store.docs)}

\* C31: when gemini.uploadFile fails at any step, the documents the store
\* held before the call, the previous version with the same originalFileName
\* among them, are all still present afterwards.
C31_FailedUploadKeepsStore ==
    \A r \in 1..Len(requests) :
        (pc = "upload" /\ Len(requests) = 1 /\ requests[r].st = "failed")
            => Lost(r) = {}

\* what a failed upload handled alone has removed is the previous version of
\* its own file and nothing else
C31_FailedUploadKeepsOthers ==
    \A r \in 1..Len(requests) :
        (pc = "upload" /\ Len(requests) = 1 /\ requests[r].st = "failed")
            => \A d \in Lost(r) : d.originalFileName = requests[r].displayName

----------------------------------------------------------------------------
(* Claims about the planner, under SpecPlan: new and changed files *)

\* an earlier local file has the identity key of the i-th and took its match
KeyTaken(i) ==
    LET key == KeyOf(localFiles[i].relativePath)
    IN  \E j \in 1..(i - 1) : KeyOf(localFiles[j].relativePath) = key

\* the entries of the listing that declare the identity key of the i-th file
RemotesNamed(i) ==
    LET key == KeyOf(localFiles[i].relativePath)
    IN  {j \in 1..Len(remoteFiles) : remoteFiles[j].originalFileName = key}

\* the remote entry the i-th local file is matched to: the last entry of the
\* listing with its identity key, unless an earlier local file took it
MatchOf(i) ==
    IF KeyTaken(i) THEN None
    ELSE LET named == RemotesNamed(i)
         IN  IF named = {} THEN None
             ELSE Some(remoteFiles[CHOOSE j \in named : \A k \in named : k <= j])

\* the i-th local file has the action a in uploads, and no other action
OnlyUpload(i, a) ==
    /\ \E k \in 1..Len(plan.uploads) : plan.uploads[k] = a
    /\ \A k \in 1..Len(plan.uploads) :
          plan.uploads[k].localFile = a.localFile => plan.uploads[k] = a
    /\ \A k \in 1..Len(plan.skips) : plan.skips[k].localFile # a.localFile
    /\ \A k \in 1..Len(plan.deletes) : plan.deletes[k].localFile # a.localFile

UploadsFor(i) == {a \in Range(plan.uploads) : a.localFile = Some(localFiles[i])}

\* the matched entry declares a hash and the local digest is another one
Differs(match, localHash) ==
    /\ match # None
    /\ TruthyHash(match[1].sha256)
    /\ TruthyHash(localHash)
    /\ match[1].sha256 # localHash

IsChanged(i) == Differs(MatchOf(i), HashOf(localHashes, localFiles[i].absolutePath))

\* C32: a local file with no remote match becomes an upload action with
\* reason "new file" and no remoteFile; a local file matched to a remote entry
\* whose hash is present and differs from the local digest becomes an upload
\* action with reason "content changed" that carries the matched remote file.
C32_NewAndChanged ==
    Planned =>
        \A i \in 1..Len(localFiles) :
            LET match == MatchOf(i)
                localHash == HashOf(localHashes, localFiles[i].absolutePath)
            IN  /\ match = None =>
                      OnlyUpload(i, [type |-> "upload", localFile |-> Some(localFiles[i]),
                                     remoteFile |-> None, reason |-> "new file"])
                /\ Differs(match, localHash) =>
                      OnlyUpload(i, [type |-> "upload", localFile |-> Some(localFiles[i]),
                                     remoteFile |-> match, reason |-> "content changed"])

\* a new file and a changed one in the same plan
C32_Witness ==
    /\ Planned
    /\ Len(localFiles) = 2
    /\ MatchOf(1) = None
    /\ IsChanged(2)
    /\ Len(plan.uploads) = 2

\* a file whose key an earlier file took is planned as new although the
\* listing holds an entry of that key with another digest
C32_WitnessKeyTaken ==
    /\ Planned
    /\ \E i \in 1..Len(localFiles) :
          /\ KeyTaken(i)
          /\ RemotesNamed(i) # {}
          /\ \E a \in UploadsFor(i) : a.reason = "new file"

----------------------------------------------------------------------------
(* Claims about the executor and its scheduling, under SpecDrain *)

\* the calls an action may make: maxRetries + 1 uploads, one delete
CallBudget == IF batch = "uploads" THEN maxRetries + 1 ELSE 1

\* C33: provided every remote call eventually returns or throws,
\* executeUploads and executeDeletes eventually return for every batch, each
\* action ending after a bounded number of attempts, and after the
\* cancellation signal is set the executor still drains its queue and returns.
C33_TerminationAndDrain ==
    /\ <>(pc = "returned")
    /\ [](aborted => <>(pc = "returned"))
    /\ [](\A i \in 1..Len(actions) : calls[i] <= CallBudget)

\* a batch cancelled while an upload slept before its retry and another
\* waited in the queue: the executor has returned a result for each
C33_Witness ==
    /\ pc = "returned"
    /\ aborted
    /\ batch = "uploads"
    /\ Len(actions) = 2
    /\ concurrency = 1
    /\ Len(results) = 2
    /\ \E i \in 1..2 : calls[i] = 2
    /\ \E i \in 1..2 : calls[i] = 0

----------------------------------------------------------------------------
(* Claims about the hasher, under SpecHash *)

\* the digest of the whole file
WholeDigest(path) == Digest(localContent[path])

\* every digest computeSha256 has given, and every entry of the map of
\* computeHashes, was computed from the whole file
OnlyWholeDigests ==
    /\ \A j \in 1..Len(settled) :
          settled[j].kind = "resolve" => settled[j].value = WholeDigest(settled[j].path)
    /\ \A a \in DOMAIN localHashes : localHashes[a] = WholeDigest(a)

\* once the signal is set no stream is read
TornDown ==
    aborted => /\ reading.st # "open"
               /\ ~reading.listening

\* the signal is set while a stream is read: the stream is destroyed and the
\* operation rejects with Error('Aborted')
AbortRejects ==
    (~aborted /\ aborted' /\ reading.st = "open")
        => /\ reading'.st = "destroyed"
           /\ reading'.fed = reading.fed
           /\ settled' = Append(settled, Rejected(reading.path, <<"Aborted">>))
           /\ localHashes' = localHashes
           /\ pc' = "rejected"

\* computeSha256 is called with the signal set: it rejects and opens no stream
AbortedBeforeRejects ==
    (pc = "sha256" /\ aborted /\ pc' # pc)
        => /\ reading' = NoStream
           /\ settled' = <<Rejected(localFiles[1].absolutePath, <<"Aborted">>)>>
           /\ pc' = "rejected"

\* C34: computeSha256 never yields a digest computed from only part of a
\* file: when the signal is set before or during the read, the read is torn
\* down and the operation rejects, and a digest is returned only after the
\* whole file was read; every entry of the map computeHashes returns is such
\* a complete digest.
C34_NoPartialDigest ==
    /\ [](pc \in {"hashes", "sha256", "hashing", "digesting", "returned", "rejected"}
            => (OnlyWholeDigests /\ TornDown))
    /\ [][AbortRejects /\ AbortedBeforeRejects]_vars

\* computeHashes has hashed a first file of two chunks and is cancelled after
\* one chunk of the second: the stream is destroyed, the call rejects
C34_Witness ==
    /\ pc = "rejected"
    /\ aborted
    /\ Len(localFiles) = 2
    /\ DOMAIN localHashes = {localFiles[1].absolutePath}
    /\ Len(localHashes[localFiles[1].absolutePath]) = 3
    /\ reading.st = "destroyed"
    /\ reading.path = localFiles[2].absolutePath
    /\ Len(reading.fed) = 1
    /\ Len(localContent[reading.path]) = 2

\* computeSha256 called on its own with the signal already set
C34_WitnessBefore ==
    /\ pc = "rejected"
    /\ reading = NoStream
    /\ Len(settled) = 1
    /\ settled[1].kind = "reject"

----------------------------------------------------------------------------
(* Claims about the backoff and the retry count, under SpecExec *)

\* uploadWithRetry of action i sleeps before its next attempt
Sleeping(i) == task[i].st = "sleep"

\* the attempts of action i a wait was made for: attempt k has the k-th wait
WaitedFor(i) ==
    IF Sleeping(i) THEN calls[i]
    ELSE IF calls[i] = 0 THEN 0
    ELSE calls[i] - 1

\* C35: counting the first attempt of an upload as attempt 0, the executor
\* waits nothing before attempt 0 and waits baseDelay * 2^(k-1) milliseconds
\* before attempt k for every k >= 1 (1000, 2000, 4000 ms with the default
\* base of 1000 ms).
C35_ExponentialBackoff ==
    (pc \in {"running", "returned"} /\ batch = "uploads") =>
        \A i \in 1..Len(actions) :
            /\ Len(delays[i]) = WaitedFor(i)
            /\ \A k \in 1..Len(delays[i]) : delays[i][k] = 1000 * (2 ^ (k - 1))
            /\ Len(delays[i]) = 3 => delays[i] = <<1000, 2000, 4000>>

\* an upload that used the whole default budget: four calls, three waits
C35_Witness ==
    /\ pc = "returned"
    /\ batch = "uploads"
    /\ maxRetries = DEFAULT_MAX_RETRIES
    /\ \E i \in 1..Len(actions) :
          /\ calls[i] = 4
          /\ delays[i] = <<1000, 2000, 4000>>

\* the uploadFile calls after the first that were made for the action of r
CallsAfterFirst(r) ==
    IF calls[ActionIndex(r.action)] = 0 THEN 0 ELSE calls[ActionIndex(r.action)] - 1

\* C36: in every upload result, whatever its outcome (success, transient
\* failure, client error, cancelled), the retries field equals the number of
\* client.uploadFile calls made for that action minus one, and 0 when no call
\* or a single call was made.
C36_RetriesTruthful ==
    Uploading =>
        \A k \in 1..Len(results) : results[k].retries = CallsAfterFirst(results[k])

\* the count is truthful for an upload that succeeded and for one that used
\* its whole budget on failures that are not client errors
C36_TruthfulWhenSucceededOrExhausted ==
    Uploading =>
        \A k \in 1..Len(results) :
            (results[k].success \/ (~results[k].cancelled /\ ~IsClientResult(results[k])))
                => results[k].retries = CallsAfterFirst(results[k])

\* a client error reports the whole budget, whatever the calls made
C36_ClientErrorReportsBudget ==
    Uploading =>
        \A k \in 1..Len(results) :
            (~results[k].cancelled /\ IsClientResult(results[k]))
                => results[k].retries = maxRetries

----------------------------------------------------------------------------
(* Claims about the identity keys, under SpecPlan *)

\* no two local files of the run have one identity key
DistinctKeys ==
    \A i \in 1..Len(localFiles) : \A j \in 1..Len(localFiles) :
        localFiles[i].relativePath # localFiles[j].relativePath
            => KeyOf(localFiles[i].relativePath) # KeyOf(localFiles[j].relativePath)

\* a remote entry is carried by at most one action of the plan
MatchedOnce ==
    \A j \in 1..Len(remoteFiles) :
        WithRemote(plan.uploads, remoteFiles[j]) + WithRemote(plan.skips, remoteFiles[j])
        + WithRemote(plan.deletes, remoteFiles[j]) <= 1

\* C37: two distinct local relative paths always derive distinct identity
\* keys, so within one plan a remote entry is matched by at most one local
\* file and two different local files are never compared against the same
\* remote entry.
C37_InjectiveKeys ==
    Planned => (DistinctKeys /\ MatchedOnce)

\* the keys of the engine that looks the relative path up verbatim are distinct
C37_InjectiveVerbatim ==
    (Planned /\ engine = "verbatim") => DistinctKeys

\* under both engines a remote entry is matched at most once, because the
\* entry a local file matched is taken out of the index
C37_MatchedOnce ==
    Planned => MatchedOnce

----------------------------------------------------------------------------
(* Claims about the order of the transfers and the flags, under SpecCmd *)

\* every upload action of the plan has its result in uploadResults
UploadsAllReturned ==
    /\ Len(uploadResults) = Len(plan.uploads)
    /\ \A k \in 1..Len(plan.uploads) :
          \E j \in 1..Len(uploadResults) : uploadResults[j].action = plan.uploads[k]

\* the executor is given the deletes
DeletesBegin == batch # "deletes" /\ batch' = "deletes"

\* no function of the batch under way is waiting, sleeping or in a call
NoneInFlight == \A i \in 1..Len(actions) : task[i].st = "done"

\* C38: in a sync run no client.deleteFile call starts before every upload
\* action of the plan has produced its result, so an upload and a delete are
\* never in flight at the same time.
C38_UploadsPrecedeDeletes ==
    /\ [](batch = "deletes" => UploadsAllReturned)
    /\ [][DeletesBegin => (NoneInFlight /\ (plan.uploads # <<>> => batch = "uploads"))]_vars

\* a delete call is in flight after the one upload of the plan has returned
C38_Witness ==
    /\ pc = "running"
    /\ batch = "deletes"
    /\ \E i \in 1..Len(actions) : task[i].st = "call"
    /\ plan.uploads # <<>>
    /\ Len(uploadResults) = Len(plan.uploads)

\* C39: when --dry-run is given, whatever the plan contains and whatever the
\* other flags are (including --yes and --delete), the run makes no uploadFile
\* and no deleteFile call and exits with code 0.
C39_DryRunMutatesNothing ==
    options.dryRun =>
        /\ NoTransfer
        /\ ~Mutating
        /\ HasPrinted("plan") => (Exited /\ exitCode = Some(0))

\* a dry run with --yes and --delete whose plan holds an upload and a delete
C39_Witness ==
    /\ options.dryRun
    /\ options.yes
    /\ deleteRemote
    /\ Exited
    /\ exitCode = Some(0)
    /\ HasPrinted("dry run")
    /\ plan.uploads # <<>>
    /\ plan.deletes # <<>>

\* a dry run that fails before its plan is built does not exit with code 0
C39_WitnessSetupFails ==
    /\ options.dryRun
    /\ Exited
    /\ ~HasPrinted("plan")
    /\ exitCode # Some(0)

----------------------------------------------------------------------------
(* Claims about the width of the worker pool, under SpecOptions *)

\* the configuration was loaded: the width is the one the executors are given
Configured == config # None

\* the width the precedence of the documentation gives: the flag, else the
\* file's sync.concurrency, else 8
StatedConcurrency ==
    IF options.concurrency # None THEN options.concurrency[1]
    ELSE IF config[1].parsed.concurrency # 0 THEN config[1].parsed.concurrency
    ELSE 8

\* C40: the worker-pool width passed to the executor is the --concurrency
\* value when the flag is given on the command line, otherwise the
\* configuration file's sync.concurrency, and 8 only when neither is set.
C40_ConcurrencyPrecedence ==
    Configured => concurrency = StatedConcurrency

\* the flag given with a positive number is the width, and without the flag
\* the width is 8 whatever the configuration file sets
C40_FlagOrEight ==
    Configured =>
        /\ (options.concurrency # None /\ options.concurrency[1] > 0)
              => concurrency = options.concurrency[1]
        /\ options.concurrency = None => concurrency = 8
        /\ options.concurrency = Some(0) => concurrency = config[1].sync.concurrency

====
